---- MODULE Spec2Model ----
(***************************************************************************)
(* A model of the MFA core of darkolive/modus: the OTP engine (CharonOTP), *)
(* the router (CerberusMFA), the WebAuthn service and the session engine   *)
(* (ChronosSession), all of which keep their state in one Dgraph store.    *)
(*                                                                         *)
(* The store is modelled as one sequence per node type; the position of a  *)
(* node in its sequence is its uid, and a query returns the matching nodes *)
(* in uid order (Dgraph answers from uid-sorted posting lists).            *)
(*                                                                         *)
(* Time is counted in ticks, TicksPerSec to the second, so that the        *)
(* truncation to whole seconds done by time.Format(time.RFC3339) and by    *)
(* time.Unix() is visible.                                                 *)
(***************************************************************************)
EXTENDS Integers, Sequences, FiniteSets, TLC

VARIABLES
    now,        \* the wall clock, in ticks
    sessions,   \* AuthSession nodes, in uid order
    last,       \* the session request completed at this instant, and its response
    revoked,    \* history: tokens for which RevokeSession returned revoked=true
    fresh,      \* history: tokens returned by IssueSession and not revoked since
    refresher,  \* the concurrent RefreshSession calls: where each one stands
    otps,       \* ChannelOTP nodes, in uid order
    otpLast,    \* the OTP request completed at this instant, and its response
    consumed,   \* history: uids of the ChannelOTP nodes a VerifyOTP succeeded on
    verifier,   \* the concurrent VerifyOTP calls: where each one stands
    generated,  \* a value drawn by rand.Int and the code generateOTP made of it
    challenges, \* WebAuthnChallenge nodes, in uid order
    credentials,\* WebAuthnCredential nodes, in uid order
    waLast,     \* the WebAuthn request completed at this instant, and its response
    users,      \* User nodes, in uid order
    userChannels, \* UserChannels nodes, in uid order
    router,     \* the concurrent CerberusMFA calls: where each one stands
    routeLast,  \* the router request completed at this instant, and its response
    emailQueue  \* the AsyncEmailQueue: its channel, its retry queue, its items

sessionVars == <<sessions, last, revoked, fresh, refresher>>

otpVars == <<otps, otpLast, consumed, verifier, generated>>

waVars == <<challenges, credentials, waLast>>

routerVars == <<users, userChannels, router, routeLast>>

vars == <<now, sessionVars, otpVars, waVars, routerVars, emailQueue>>

(***************************************************************************)
(* Bounds of the model.                                                    *)
(***************************************************************************)
TicksPerSec == 2
MaxSessions == 2
MaxOTPs == 2
MaxChallenges == 1
MaxCredentials == 2
NumVerifiers == 2
NumRouters == 2
NumRefreshers == 2

\* the emails handed to QueueEmail, the capacity of the channel of the
\* queue, and its worker goroutines
MaxEmails == 2
QueueSize == 1
NumWorkers == 2
MaxUsers == 3
MaxUserChannels == 3

(***************************************************************************)
(* Time conversions.                                                       *)
(***************************************************************************)
\* t.Unix(): whole seconds of an instant given in ticks
Unix(t) == t \div TicksPerSec

\* time.Unix(s, 0): the instant of a whole second
TimeUnix(s) == s * TicksPerSec

\* t.Format(time.RFC3339): the layout has no fractional seconds
FormatRFC3339(t) == t \div TicksPerSec

\* time.Parse(time.RFC3339, s)
ParseRFC3339(s) == s * TicksPerSec

Min(S) == CHOOSE x \in S : \A y \in S : x <= y

(***************************************************************************)
(* ChronosSession: configuration (Initialize).                             *)
(***************************************************************************)
ttl == 86400
refreshWindow == 3600

StandardClaims == {"sub", "iat", "exp", "jti"}

\* The SessionRequests callers send: one without a user id, one without extra
\* claims, and one whose AdditionalClaims (a set of <<key, value>> pairs)
\* carries a key of its own and the names of the four standard claims.
SessionRequests ==
    { [UserID |-> "", AdditionalClaims |-> {}],
      [UserID |-> "u1", AdditionalClaims |-> {}],
      [UserID |-> "u2",
       AdditionalClaims |-> {<<"auth_type", "otp">>, <<"sub", "root">>, <<"iat", "0">>,
                             <<"exp", "9999999999">>, <<"jti", "0-root">>}] }

\* The empty string, and a string that is no token signed with the secret.
EmptyToken ==
    [kind |-> "empty", sub |-> "", iat |-> 0, exp |-> 0, jti |-> <<0, "">>,
     extra |-> {}, signed |-> FALSE]
GarbageToken ==
    [kind |-> "garbage", sub |-> "", iat |-> 0, exp |-> 0, jti |-> <<0, "">>,
     extra |-> {}, signed |-> FALSE]

\* sha256 of the token string: injective on the tokens of the model
hashToken(token) == <<"sha256", token>>

\* the uids of the AuthSession nodes with the token's hash, in uid order
SessionsByHash(sess, token) ==
    {i \in 1..Len(sess) : sess[i].tokenHash = hashToken(token)}

\* The first AuthSession node of the token is marked invalid: a revocation
\* has reached it.
AlreadyRevoked(sess, token) ==
    LET found == SessionsByHash(sess, token)
    IN  found # {} /\ ~sess[Min(found)].valid

storeSession(sess, userID, token, issuedAt, expiresAt) ==
    Append(sess, [userID |-> userID,
                  tokenHash |-> hashToken(token),
                  issuedAt |-> FormatRFC3339(issuedAt),
                  expiresAt |-> FormatRFC3339(expiresAt),
                  valid |-> TRUE,
                  lastUsed |-> -1])

\* The variant in which an additional claim named sub replaces the subject.
IssueSessionResp_SubFromClaims(sess, userID, additional, t) ==
    IF userID = ""
    THEN [ok |-> FALSE, token |-> EmptyToken, expiresAt |-> 0, sessions |-> sess]
    ELSE LET expiresAt == t + ttl * TicksPerSec
             subs == {c[2] : c \in {d \in additional : d[1] = "sub"}}
             token == [kind |-> "jwt",
                       sub |-> IF subs = {} THEN userID ELSE CHOOSE x \in subs : TRUE,
                       iat |-> Unix(t),
                       exp |-> Unix(expiresAt),
                       jti |-> <<Unix(t), userID>>,
                       extra |-> {c \in additional : c[1] \notin StandardClaims},
                       signed |-> TRUE]
         IN [ok |-> TRUE, token |-> token, expiresAt |-> expiresAt,
             sessions |-> storeSession(sess, userID, token, t, expiresAt)]

\* IssueSession: the response and the store after it
IssueSessionResp(sess, userID, additional, t) ==
    IF userID = ""
    THEN [ok |-> FALSE, token |-> EmptyToken, expiresAt |-> 0, sessions |-> sess]
    ELSE LET expiresAt == t + ttl * TicksPerSec
             token == [kind |-> "jwt",
                       sub |-> userID,
                       iat |-> Unix(t),
                       exp |-> Unix(expiresAt),
                       jti |-> <<Unix(t), userID>>,
                       extra |-> {c \in additional : c[1] \notin StandardClaims},
                       signed |-> TRUE]
         IN [ok |-> TRUE, token |-> token, expiresAt |-> expiresAt,
             sessions |-> storeSession(sess, userID, token, t, expiresAt)]

\* jwt.Parse accepting a token at the very second of its exp claim
jwtParseOK_UpToExp(token, t) ==
    /\ token.kind = "jwt"
    /\ token.signed
    /\ t <= TimeUnix(token.exp)

\* jwt.Parse (golang-jwt v5) with the HMAC key: the signature must verify and
\* the exp claim must lie in the future (now.Before(exp)).
jwtParseOK(token, t) ==
    /\ token.kind = "jwt"
    /\ token.signed
    /\ t < TimeUnix(token.exp)

\* isTokenValid without the test of the valid flag
isTokenValid_NoValidFlag(sess, token, t) ==
    LET found == SessionsByHash(sess, token)
    IN IF found = {} THEN FALSE
       ELSE t <= ParseRFC3339(sess[Min(found)].expiresAt)

isTokenValid(sess, token, t) ==
    LET found == SessionsByHash(sess, token)
    IN IF found = {} THEN FALSE
       ELSE LET session == sess[Min(found)]
            IN IF ~session.valid THEN FALSE
               ELSE IF t > ParseRFC3339(session.expiresAt) THEN FALSE
               ELSE TRUE

updateLastUsed(sess, token, t) ==
    LET found == SessionsByHash(sess, token)
    IN IF found = {} THEN sess
       ELSE [sess EXCEPT ![Min(found)].lastUsed = FormatRFC3339(t)]

\* "invalid token: " and err.Error() of the error jwt.Parse returns: the
\* library names what it found wrong with the token.
InvalidTokenMessage(token, t) ==
    IF token.kind = "jwt" /\ token.signed
    THEN "invalid token: token has invalid claims: token is expired"
    ELSE "invalid token: token is malformed"

\* ValidateSession: the response
ValidateSessionResp(sess, token, t) ==
    IF token.kind = "empty"
    THEN [valid |-> FALSE, userID |-> "", expiresAt |-> 0, message |-> "token is required"]
    ELSE IF ~jwtParseOK(token, t)
    THEN [valid |-> FALSE, userID |-> "", expiresAt |-> 0,
          message |-> InvalidTokenMessage(token, t)]
    ELSE IF ~isTokenValid(sess, token, t)
    THEN [valid |-> FALSE, userID |-> "", expiresAt |-> 0, message |-> "token has been revoked"]
    ELSE [valid |-> TRUE, userID |-> token.sub, expiresAt |-> TimeUnix(token.exp),
          message |-> "Token is valid"]

\* ValidateSession: the store after it
ValidateSessionStore(sess, token, t) ==
    IF ValidateSessionResp(sess, token, t).valid
    THEN updateLastUsed(sess, token, t)
    ELSE sess

\* What the store may do to the calls of ValidateSession: serve them, fail
\* the query of isTokenValid, answer it with a record that cannot be decoded
\* (json.Unmarshal or time.Parse fails), answer it with no record, or fail
\* the calls of updateLastUsed.
SessionFaults == {"none", "query", "malformed", "noRecord", "lastUsed"}

\* The faults under which isTokenValid does not see the record of the token.
LookupFaults == {"query", "malformed", "noRecord"}

\* The variant of ValidateSession that drops the error of isTokenValid and
\* goes by the signature and the exp claim alone when the lookup fails.
ValidateSessionServed_FailOpen(sess, token, fault, t) ==
    IF token.kind = "empty" \/ ~jwtParseOK(token, t)
    THEN [resp |-> ValidateSessionResp(sess, token, t), sessions |-> sess]
    ELSE IF fault \in {"query", "malformed"}
    THEN [resp |-> [valid |-> TRUE, userID |-> token.sub,
                    expiresAt |-> TimeUnix(token.exp), message |-> "Token is valid"],
          sessions |-> sess]
    ELSE IF fault = "noRecord"
    THEN [resp |-> [valid |-> FALSE, userID |-> "", expiresAt |-> 0,
                    message |-> "token has been revoked"],
          sessions |-> sess]
    ELSE [resp |-> ValidateSessionResp(sess, token, t),
          sessions |-> IF fault = "lastUsed" THEN sess
                       ELSE ValidateSessionStore(sess, token, t)]

\* ValidateSession under a fault of the store: the response and the store
\* after it.  The error of isTokenValid makes the response valid=false; the
\* error of updateLastUsed is dropped.
ValidateSessionServed(sess, token, fault, t) ==
    IF token.kind = "empty" \/ ~jwtParseOK(token, t)
    THEN [resp |-> ValidateSessionResp(sess, token, t), sessions |-> sess]
    ELSE IF fault \in {"query", "malformed"}
    THEN [resp |-> [valid |-> FALSE, userID |-> "", expiresAt |-> 0,
                    message |-> "error checking token validity"],
          sessions |-> sess]
    ELSE IF fault = "noRecord"
    THEN [resp |-> [valid |-> FALSE, userID |-> "", expiresAt |-> 0,
                    message |-> "token has been revoked"],
          sessions |-> sess]
    ELSE [resp |-> ValidateSessionResp(sess, token, t),
          sessions |-> IF fault = "lastUsed" THEN sess
                       ELSE ValidateSessionStore(sess, token, t)]

\* The variant that refuses a session already marked invalid.
invalidateToken_OnlyValid(sess, token, storeOK) ==
    LET found == SessionsByHash(sess, token)
    IN IF ~storeOK \/ found = {} \/ AlreadyRevoked(sess, token)
       THEN [err |-> TRUE, sessions |-> sess]
       ELSE [err |-> FALSE, sessions |-> [sess EXCEPT ![Min(found)].valid = FALSE]]

\* invalidateToken: the error and the store after it.  storeOK says whether
\* the store answers the query and accepts the mutation; it writes nothing
\* when either fails.
invalidateToken(sess, token, storeOK) ==
    LET found == SessionsByHash(sess, token)
    IN IF ~storeOK \/ found = {} THEN [err |-> TRUE, sessions |-> sess]
       ELSE [err |-> FALSE, sessions |-> [sess EXCEPT ![Min(found)].valid = FALSE]]

\* RevokeSession: the response and the store after it
RevokeSessionResp(sess, token, storeOK) ==
    IF token.kind = "empty"
    THEN [revoked |-> FALSE, sessions |-> sess]
    ELSE LET r == invalidateToken(sess, token, storeOK)
         IN [revoked |-> ~r.err, sessions |-> r.sessions]

\* the refresh-window test of RefreshSession: TRUE when the refresh is refused
notEligibleForRefresh(expiresAt, t) ==
    LET timeUntilExpiry == expiresAt - t
    IN /\ timeUntilExpiry > refreshWindow * TicksPerSec
       /\ timeUntilExpiry < (ttl \div 2) * TicksPerSec

\* RefreshSession: the response and the store after it.  The error of its
\* RevokeSession is dropped; revokeOK says whether the store served that call.
RefreshSessionResp(sess, token, revokeOK, t) ==
    LET validation == ValidateSessionResp(sess, token, t)
        validated == ValidateSessionStore(sess, token, t)
    IN IF ~validation.valid
       THEN [ok |-> FALSE, token |-> EmptyToken, expiresAt |-> 0, sessions |-> validated]
       ELSE IF notEligibleForRefresh(validation.expiresAt, t)
       THEN [ok |-> FALSE, token |-> EmptyToken, expiresAt |-> 0, sessions |-> validated]
       ELSE LET newSession == IssueSessionResp(validated, validation.userID, token.extra, t)
            IN IF ~newSession.ok
               THEN [ok |-> FALSE, token |-> EmptyToken, expiresAt |-> 0,
                     sessions |-> newSession.sessions]
               ELSE [ok |-> TRUE, token |-> newSession.token,
                     expiresAt |-> newSession.expiresAt,
                     sessions |-> RevokeSessionResp(newSession.sessions, token,
                                                    revokeOK).sessions]

\* RefreshSession: the text of the error it returns, "" when it returns none.
RefreshSessionError(sess, token, t) ==
    LET validation == ValidateSessionResp(sess, token, t)
    IN IF ~validation.valid THEN validation.message
       ELSE IF notEligibleForRefresh(validation.expiresAt, t)
       THEN "token not eligible for refresh yet"
       ELSE ""

(***************************************************************************)
(* The requests of the session engine.  A caller presents a token it was   *)
(* given, the empty string or a string that is no signed token.            *)
(***************************************************************************)
IssuedTokens == {sessions[i].tokenHash[2] : i \in 1..Len(sessions)}

PresentedTokens == IssuedTokens \cup {EmptyToken, GarbageToken}

NoRequest == [op |-> "none", token |-> EmptyToken, ok |-> FALSE, out |-> EmptyToken,
              userID |-> "", expiresAt |-> 0, again |-> FALSE, served |-> TRUE]


IssueSession ==
    /\ Len(sessions) < MaxSessions
    /\ \E req \in SessionRequests :
         LET r == IssueSessionResp(sessions, req.UserID, req.AdditionalClaims, now)
         IN /\ sessions' = r.sessions
            /\ last' = [op |-> "issue", token |-> EmptyToken, ok |-> r.ok,
                        out |-> r.token, userID |-> req.UserID, expiresAt |-> r.expiresAt,
                        again |-> FALSE, served |-> TRUE]
            /\ fresh' = IF r.ok THEN fresh \cup {r.token} ELSE fresh
    /\ UNCHANGED <<emailQueue, now, revoked, refresher, otpVars, waVars, routerVars>>

ValidateSession ==
    /\ \E token \in PresentedTokens :
         LET r == ValidateSessionResp(sessions, token, now)
         IN /\ sessions' = ValidateSessionStore(sessions, token, now)
            /\ last' = [op |-> "validate", token |-> token, ok |-> r.valid,
                        out |-> EmptyToken, userID |-> r.userID,
                        expiresAt |-> r.expiresAt, again |-> FALSE,
                        served |-> TRUE]
    /\ UNCHANGED <<emailQueue, now, revoked, fresh, refresher, otpVars, waVars, routerVars>>

\* ValidateSession with the faults of the store calls it reaches.  served
\* says that isTokenValid saw the record of the token.
ValidateSessionUnderFaults ==
    /\ \E token \in PresentedTokens :
       \E fault \in IF token.kind = "empty" \/ ~jwtParseOK(token, now) THEN {"none"}
                     ELSE IF ValidateSessionResp(sessions, token, now).valid
                     THEN SessionFaults
                     ELSE SessionFaults \ {"lastUsed"} :
         LET r == ValidateSessionServed(sessions, token, fault, now)
         IN /\ sessions' = r.sessions
            /\ last' = [op |-> "validate", token |-> token, ok |-> r.resp.valid,
                        out |-> EmptyToken, userID |-> r.resp.userID,
                        expiresAt |-> r.resp.expiresAt, again |-> FALSE,
                        served |-> fault \notin LookupFaults]
    /\ UNCHANGED <<emailQueue, now, revoked, fresh, refresher, otpVars, waVars, routerVars>>

RefreshSession ==
    /\ Len(sessions) < MaxSessions
    /\ \E token \in PresentedTokens :
       \E revokeOK \in IF RefreshSessionResp(sessions, token, TRUE, now).ok
                       THEN BOOLEAN ELSE {TRUE} :
         LET r == RefreshSessionResp(sessions, token, revokeOK, now)
         IN /\ sessions' = r.sessions
            /\ last' = [op |-> "refresh", token |-> token, ok |-> r.ok,
                        out |-> r.token, userID |-> "", expiresAt |-> r.expiresAt,
                        again |-> FALSE, served |-> TRUE]
            /\ fresh' = IF r.ok /\ revokeOK THEN (fresh \cup {r.token}) \ {token}
                        ELSE IF r.ok THEN fresh \cup {r.token}
                        ELSE fresh
    /\ UNCHANGED <<emailQueue, now, revoked, refresher, otpVars, waVars, routerVars>>

RevokeSession ==
    /\ \E token \in PresentedTokens :
       \E storeOK \in IF SessionsByHash(sessions, token) = {} THEN {TRUE} ELSE BOOLEAN :
         LET r == RevokeSessionResp(sessions, token, storeOK)
         IN /\ sessions' = r.sessions
            /\ last' = [op |-> "revoke", token |-> token, ok |-> r.revoked,
                        out |-> EmptyToken, userID |-> "", expiresAt |-> 0,
                        again |-> AlreadyRevoked(sessions, token),
                        served |-> storeOK]
            /\ revoked' = IF r.revoked THEN revoked \cup {token} ELSE revoked
            /\ fresh' = IF r.revoked THEN fresh \ {token} ELSE fresh
    /\ UNCHANGED <<emailQueue, now, refresher, otpVars, waVars, routerVars>>

\* The instants at which requests arrive: the start and a tick later, the two
\* sides of half the lifetime, the start of the refresh window, and the expiry
\* of a token issued at the start.
SessionInstants ==
    {0, 1,
     (ttl \div 2) * TicksPerSec, (ttl \div 2) * TicksPerSec + 1,
     (ttl - refreshWindow) * TicksPerSec,
     ttl * TicksPerSec}

SessionTick ==
    /\ \E t \in SessionInstants : t > now /\ now' = t
    /\ last' = NoRequest
    /\ UNCHANGED <<emailQueue, sessions, revoked, fresh, refresher, otpVars, waVars, routerVars>>

(***************************************************************************)
(* RefreshSession as the store sees it: a validation (a query, and the     *)
(* write of lastUsed), the store of the new session, and the revocation of *)
(* the old one, with other calls in between.                               *)
(***************************************************************************)
IdleRefresher ==
    [pc |-> "idle", token |-> EmptyToken, ok |-> FALSE, out |-> EmptyToken]

Refreshers == 1..NumRefreshers

\* ValidateSession and the refresh-window test, with the clock of that moment.
RefresherValidate(p) ==
    /\ refresher[p].pc = "idle"
    /\ \A q \in Refreshers : q < p => refresher[q].pc # "idle"
    /\ \E token \in IssuedTokens :
         LET validation == ValidateSessionResp(sessions, token, now)
             refused == \/ ~validation.valid
                        \/ notEligibleForRefresh(validation.expiresAt, now)
         IN  /\ sessions' = ValidateSessionStore(sessions, token, now)
             /\ refresher' = [refresher EXCEPT ![p] =
                    [pc |-> IF refused THEN "done" ELSE "issue", token |-> token,
                     ok |-> FALSE, out |-> EmptyToken]]
    /\ UNCHANGED <<emailQueue, now, last, revoked, fresh, otpVars, waVars, routerVars>>

\* IssueSession for the subject and the additional claims of the old token.
RefresherIssue(p) ==
    /\ refresher[p].pc = "issue"
    /\ LET token == refresher[p].token
           newSession == IssueSessionResp(sessions, token.sub, token.extra, now)
       IN  /\ sessions' = newSession.sessions
           /\ refresher' = [refresher EXCEPT ![p].pc = "revoke",
                                              ![p].out = newSession.token]
    /\ UNCHANGED <<emailQueue, now, last, revoked, fresh, otpVars, waVars, routerVars>>

\* RevokeSession of the old token, its error dropped, and the return.
RefresherRevoke(p) ==
    /\ refresher[p].pc = "revoke"
    /\ \E revokeOK \in BOOLEAN :
         sessions' = RevokeSessionResp(sessions, refresher[p].token, revokeOK).sessions
    /\ refresher' = [refresher EXCEPT ![p].pc = "done", ![p].ok = TRUE]
    /\ UNCHANGED <<emailQueue, now, last, revoked, fresh, otpVars, waVars, routerVars>>

\* The instants of the concurrent calls: the start, and the first instant of
\* the refresh window of a token issued at the start.
RefresherInstants == {0, (ttl - refreshWindow) * TicksPerSec}

RefresherTick ==
    /\ \E t \in RefresherInstants : t > now /\ now' = t
    /\ last' = NoRequest
    /\ UNCHANGED <<emailQueue, sessions, revoked, fresh, refresher, otpVars, waVars, routerVars>>

(***************************************************************************)
(* CharonOTP: the OTP engine.                                              *)
(***************************************************************************)

\* fmt.Sprintf("%06d", n): the decimal digits of n, left-padded with zeros
\* to six places (more digits are kept).
RECURSIVE Digits(_)
Digits(n) == IF n < 10 THEN <<n>> ELSE Append(Digits(n \div 10), n % 10)

RECURSIVE ZeroPad(_, _)
ZeroPad(ds, width) == IF Len(ds) >= width THEN ds ELSE ZeroPad(<<0>> \o ds, width)

Sprintf06d(n) == ZeroPad(Digits(n), 6)

\* rand.Int draws n in [0, 899999]; the model takes the two ends of the range.
OTPDraws == {0, 899999}

\* The variant that leaves out n.Add(n, min).
generateOTP_NoOffset(n) == Sprintf06d(n)

generateOTP(n) == Sprintf06d(n + 100000)

\* The bound handed to rand.Int: max.Sub(max, min).Add(max, 1), that is
\* 999999 - 100000 + 1; rand.Int returns a value in [0, RandBound).
RandBound == 900000

RandDraws == 0..(RandBound - 1)

NoDraw == [n |-> 0, code |-> <<>>]

\* generateOTP applied to the value the random source returned.
GenerateOTP ==
    /\ generated.code = <<>>
    /\ generated' = [generated EXCEPT !.code = generateOTP(generated.n)]
    /\ UNCHANGED <<emailQueue, now, otps, otpLast, consumed, verifier, sessionVars, waVars, routerVars>>

hashString(input) == <<"sha256", input>>

OTPExpirySeconds == 5 * 60

\* What a client may put in a SendOTP request.  An input that the handler
\* does not come to use is not varied.
OTPRequests ==
    { [Channel |-> "email", Recipient |-> "a@b.test"],
      [Channel |-> "sms",   Recipient |-> "c@d.test"],
      [Channel |-> "",      Recipient |-> "a@b.test"],
      [Channel |-> "email", Recipient |-> ""],
      [Channel |-> "fax",   Recipient |-> "a@b.test"] }

\* What a client may put in a VerifyOTP request: the codes that can have
\* been sent, and one that cannot.
VerifyOTPRequests ==
    [Recipient : {"a@b.test", "c@d.test"},
     OTPCode : {generateOTP(n) : n \in OTPDraws} \cup {Sprintf06d(42)}]

\* The store calls of VerifyOTP that may return an error.
OTPFaults == {"none", "query", "mark", "user"}

\* The variant of storeOTPInDgraph that retires the earlier codes of the
\* recipient when it stores a new one.
storeOTPInDgraph_Supersede(o, channel, recipient, otpCode, expiresAt) ==
    Append([i \in 1..Len(o) |->
               IF o[i].channelHash = hashString(recipient)
               THEN [o[i] EXCEPT !.used = TRUE] ELSE o[i]],
           [channelHash |-> hashString(recipient),
            channelType |-> channel,
            otpHash     |-> hashString(otpCode),
            verified    |-> FALSE,
            used        |-> FALSE,
            expiresAt   |-> FormatRFC3339(expiresAt)])

\* storeOTPInDgraph: one new ChannelOTP node, by a blank-node mutation.
storeOTPInDgraph(o, channel, recipient, otpCode, expiresAt) ==
    Append(o, [channelHash |-> hashString(recipient),
               channelType |-> channel,
               otpHash     |-> hashString(otpCode),
               verified    |-> FALSE,
               used        |-> FALSE,
               expiresAt   |-> FormatRFC3339(expiresAt)])

\* The email queue accepts or rejects the message; the other dispatchers are
\* placeholders that always report an error.
sendOTP(channel, emailOK) == IF channel = "email" THEN emailOK ELSE FALSE

\* The variant that tests the two fields for emptiness only.
SendOTPRejects_EmptyOnly(req) ==
    \/ req.Channel = ""
    \/ req.Recipient = ""

\* The requests SendOTP answers with an error: the two tests on entry, and
\* the default branch of the switch on the channel, which returns before
\* any dispatcher or the store is called.
SendOTPRejects(req) ==
    \/ req.Channel = ""
    \/ req.Recipient = ""
    \/ req.Channel \notin {"email", "sms", "whatsapp", "telegram"}

\* logAuditEvent: the number of AuditEntry nodes it writes.  The error of
\* the mutation is logged and dropped.
logAuditEvent(auditOK) == IF auditOK THEN 1 ELSE 0

\* The AuditEntry nodes a SendOTP writes: storeOTPInDgraph calls
\* logAuditEvent once, with OTP_GENERATED or OTP_STORAGE_FAILED.
SendOTPAudits(req, auditOK) ==
    IF SendOTPRejects(req) THEN 0 ELSE logAuditEvent(auditOK)

\* The AuditEntry nodes a VerifyOTP writes: it calls logAuditEvent nowhere.
VerifyOTPAudits == 0

\* The variant of SendOTP that returns after a failed dispatch without
\* storing the code.
SendOTPResp_StopOnSendError(o, req, draw, emailOK, storeOK, t) ==
    IF SendOTPRejects(req)
    THEN [err |-> TRUE, dispatched |-> FALSE, Sent |-> FALSE, stored |-> FALSE,
          OTPID |-> "", ExpiresAt |-> 0, otps |-> o]
    ELSE LET otpCode == generateOTP(draw)
             expiresAt == t + OTPExpirySeconds * TicksPerSec
             sent == sendOTP(req.Channel, emailOK)
         IN  [err |-> FALSE,
              dispatched |-> TRUE,
              Sent |-> sent,
              stored |-> sent /\ storeOK,
              OTPID |-> IF sent /\ storeOK THEN "uid" ELSE "otp_<nanoseconds>",
              ExpiresAt |-> expiresAt,
              otps |-> IF sent /\ storeOK
                       THEN storeOTPInDgraph(o, req.Channel, req.Recipient, otpCode, expiresAt)
                       ELSE o]

\* SendOTP's response and the store after it.  err = TRUE is the error
\* return, before anything is sent or stored; dispatched says that a
\* dispatcher was called.  A storage error is logged and the response then
\* carries the fallback id otp_<nanoseconds>.
SendOTPResp(o, req, draw, emailOK, storeOK, t) ==
    IF SendOTPRejects(req)
    THEN [err |-> TRUE, dispatched |-> FALSE, Sent |-> FALSE, stored |-> FALSE,
          OTPID |-> "", ExpiresAt |-> 0, otps |-> o]
    ELSE LET otpCode == generateOTP(draw)
             expiresAt == t + OTPExpirySeconds * TicksPerSec
         IN  [err |-> FALSE,
              dispatched |-> TRUE,
              Sent |-> sendOTP(req.Channel, emailOK),
              stored |-> storeOK,
              OTPID |-> IF storeOK THEN "uid" ELSE "otp_<nanoseconds>",
              ExpiresAt |-> expiresAt,
              otps |-> IF storeOK
                       THEN storeOTPInDgraph(o, req.Channel, req.Recipient, otpCode, expiresAt)
                       ELSE o]

\* The variant of the query without the filter on otpHash.
otp_verification_AnyCode(o, req) ==
    {i \in 1..Len(o) : /\ o[i].channelHash = hashString(req.Recipient)
                       /\ ~o[i].verified
                       /\ ~o[i].used}

\* The uids the query of VerifyOTP returns: same channelHash, same otpHash,
\* verified = false and used = false.
otp_verification(o, req) ==
    {i \in 1..Len(o) : /\ o[i].channelHash = hashString(req.Recipient)
                       /\ o[i].otpHash = hashString(req.OTPCode)
                       /\ ~o[i].verified
                       /\ ~o[i].used}

\* The variant of markOTPAsVerifiedAndUsed that writes nothing.
markOTPAsVerifiedAndUsed_NoWrite(o, otpUID) == o

\* The variant that writes the used flag alone.
markOTPAsVerifiedAndUsed_UsedOnly(o, otpUID) == [o EXCEPT ![otpUID].used = TRUE]

\* markOTPAsVerifiedAndUsed: one mutation that sets both flags.
markOTPAsVerifiedAndUsed(o, otpUID) ==
    [o EXCEPT ![otpUID].verified = TRUE, ![otpUID].used = TRUE]

generateChannelDID(channel, recipient) == hashString(<<channel, ":", recipient>>)

NoUserID == <<>>

\* The uid of the i-th User node, as the store prints it.
UserUID(i) == <<"0x", i, <<>>>>

\* The User nodes the query of checkUserExists returns: those whose emailDID
\* (phoneDID for the channel type phone) is channelDID.  Only RegisterUser of
\* HecateRegister writes these predicates.
UsersByChannelDID(channelDID, channelType) ==
    {i \in 1..Len(users) : IF channelType = "email"
                           THEN users[i].emailDID = channelDID
                           ELSE users[i].phoneDID = channelDID}

\* checkUserExists: a query on User by emailDID or phoneDID; the user id it
\* returns is the uid of the first node.
checkUserExists(channelDID, channelType, queryOK) ==
    LET found == UsersByChannelDID(channelDID, channelType)
    IN  IF channelType \notin {"email", "phone"}
        THEN [err |-> TRUE, exists |-> FALSE, userID |-> NoUserID]
        ELSE IF ~queryOK
        THEN [err |-> TRUE, exists |-> FALSE, userID |-> NoUserID]
        ELSE IF found # {}
        THEN [err |-> FALSE, exists |-> TRUE, userID |-> UserUID(Min(found))]
        ELSE [err |-> FALSE, exists |-> FALSE, userID |-> NoUserID]

PostOTPVerification(channel, recipient, queryOK) ==
    LET channelDID == generateChannelDID(channel, recipient)
        u == checkUserExists(channelDID, channel, queryOK)
    IN  IF u.err
        THEN [err |-> TRUE, action |-> "", userID |-> NoUserID, channelDID |-> ""]
        ELSE IF u.exists
        THEN [err |-> FALSE, action |-> "signin", userID |-> u.userID, channelDID |-> channelDID]
        ELSE [err |-> FALSE, action |-> "register", userID |-> NoUserID, channelDID |-> channelDID]

NoVerifyResp ==
    [Verified |-> FALSE, Message |-> "", UserID |-> NoUserID, Action |-> "",
     ChannelDID |-> ""]

VerifyFailed(message) ==
    [Verified |-> FALSE, Message |-> message, UserID |-> NoUserID, Action |-> "",
     ChannelDID |-> ""]

\* First step of VerifyOTP: the query, and the tests on its result.  done
\* says that VerifyOTP returns here.
VerifyOTPQuery(o, req, queryOK, t) ==
    LET found == otp_verification(o, req)
        otpRecord == Min(found)
    IN  IF ~queryOK
        THEN [done |-> TRUE, uid |-> 0, channelType |-> "",
              resp |-> VerifyFailed("Failed to verify OTP: database error")]
        ELSE IF found = {}
        THEN [done |-> TRUE, uid |-> 0, channelType |-> "",
              resp |-> VerifyFailed("Invalid OTP code or OTP has already been used")]
        ELSE IF t > ParseRFC3339(o[otpRecord].expiresAt)
        THEN [done |-> TRUE, uid |-> otpRecord, channelType |-> o[otpRecord].channelType,
              resp |-> VerifyFailed("OTP has expired")]
        ELSE [done |-> FALSE, uid |-> otpRecord, channelType |-> o[otpRecord].channelType,
              resp |-> NoVerifyResp]

\* Second step: the mutation that marks the record found by the first.
VerifyOTPMark(o, otpUID, markOK) ==
    IF ~markOK
    THEN [done |-> TRUE, otps |-> o, resp |-> VerifyFailed("Failed to update OTP status")]
    ELSE [done |-> FALSE, otps |-> markOTPAsVerifiedAndUsed(o, otpUID), resp |-> NoVerifyResp]

\* Third step: the user query, and the response.
VerifyOTPPost(channelType, req, userOK) ==
    LET post == PostOTPVerification(channelType, req.Recipient, userOK)
    IN  IF post.err
        THEN VerifyFailed("Failed to determine next action")
        ELSE [Verified |-> TRUE, Message |-> "OTP verified successfully",
              UserID |-> post.userID,
              Action |-> post.action, ChannelDID |-> post.channelDID]

\* VerifyOTP run from start to end with no other request in between.
VerifyOTPResp(o, req, fault, t) ==
    LET q == VerifyOTPQuery(o, req, fault # "query", t)
        m == VerifyOTPMark(o, q.uid, fault # "mark")
    IN  IF q.done THEN [resp |-> q.resp, uid |-> q.uid, otps |-> o]
        ELSE IF m.done THEN [resp |-> m.resp, uid |-> q.uid, otps |-> m.otps]
        ELSE [resp |-> VerifyOTPPost(q.channelType, req, fault # "user"), uid |-> q.uid, otps |-> m.otps]

NoOTPRequest ==
    [op |-> "none", req |-> [Recipient |-> "", OTPCode |-> <<>>], channel |-> "",
     dispatched |-> FALSE, OTPID |-> "", uid |-> 0,
     candidates |-> {}, resp |-> NoVerifyResp, audits |-> 0]

IdleVerifier ==
    [pc |-> "idle", req |-> [Recipient |-> "", OTPCode |-> <<>>],
     uid |-> 0, channelType |-> "", resp |-> NoVerifyResp]

Verifiers == 1..NumVerifiers

SendOTP ==
    /\ Len(otps) < MaxOTPs
    /\ \E req \in OTPRequests :
       \E draw \in (IF SendOTPRejects(req) THEN {0} ELSE OTPDraws),
          emailOK \in (IF req.Channel = "email" /\ ~SendOTPRejects(req) THEN BOOLEAN ELSE {FALSE}),
          storeOK \in (IF SendOTPRejects(req) THEN {FALSE} ELSE BOOLEAN),
          auditOK \in (IF SendOTPRejects(req) THEN {FALSE} ELSE BOOLEAN) :
         LET r == SendOTPResp(otps, req, draw, emailOK, storeOK, now)
         IN  /\ otps' = r.otps
             /\ otpLast' = [op |-> IF r.err THEN "sendError" ELSE "send",
                            req |-> [Recipient |-> req.Recipient, OTPCode |-> <<>>],
                            channel |-> req.Channel,
                            dispatched |-> r.dispatched,
                            OTPID |-> r.OTPID,
                            uid |-> IF r.stored THEN Len(r.otps) ELSE 0,
                            candidates |-> {},
                            resp |-> [NoVerifyResp EXCEPT !.Message =
                                        IF r.Sent THEN "sent" ELSE "not sent"],
                            audits |-> SendOTPAudits(req, auditOK)]
    /\ UNCHANGED <<emailQueue, now, consumed, verifier, generated, sessionVars, waVars, routerVars>>

VerifyOTP ==
    /\ \E req \in VerifyOTPRequests :
       \E fault \in (IF VerifyOTPQuery(otps, req, TRUE, now).done
                     THEN {"none", "query"} ELSE OTPFaults) :
         LET r == VerifyOTPResp(otps, req, fault, now)
         IN  /\ otps' = r.otps
             /\ otpLast' = [op |-> "verify", req |-> req, channel |-> "",
                            dispatched |-> FALSE, OTPID |-> "", uid |-> r.uid,
                            candidates |-> otp_verification(otps, req),
                            resp |-> r.resp, audits |-> VerifyOTPAudits]
             /\ consumed' = IF r.resp.Verified THEN consumed \cup {r.uid} ELSE consumed
    /\ UNCHANGED <<emailQueue, now, verifier, generated, sessionVars, waVars, routerVars>>

\* The same handler, one store call at a time, for requests served
\* concurrently.  The requests are numbered in their order of arrival.
VerifierQuery(p) ==
    /\ verifier[p].pc = "idle"
    /\ \A q \in Verifiers : q < p => verifier[q].pc # "idle"
    /\ \E req \in VerifyOTPRequests, queryOK \in BOOLEAN :
         LET q == VerifyOTPQuery(otps, req, queryOK, now)
         IN  verifier' = [verifier EXCEPT ![p] =
                 [pc |-> IF q.done THEN "done" ELSE "mark", req |-> req,
                  uid |-> q.uid, channelType |-> q.channelType, resp |-> q.resp]]
    /\ UNCHANGED <<emailQueue, now, otps, otpLast, consumed, generated, sessionVars, waVars, routerVars>>

VerifierMark(p) ==
    /\ verifier[p].pc = "mark"
    /\ \E markOK \in BOOLEAN :
         LET m == VerifyOTPMark(otps, verifier[p].uid, markOK)
         IN  /\ otps' = m.otps
             /\ verifier' = [verifier EXCEPT ![p].pc = IF m.done THEN "done" ELSE "post",
                                             ![p].resp = m.resp]
    /\ UNCHANGED <<emailQueue, now, otpLast, consumed, generated, sessionVars, waVars, routerVars>>

VerifierPost(p) ==
    /\ verifier[p].pc = "post"
    /\ \E userOK \in BOOLEAN :
         LET resp == VerifyOTPPost(verifier[p].channelType, verifier[p].req, userOK)
         IN  /\ verifier' = [verifier EXCEPT ![p].pc = "done", ![p].resp = resp]
             /\ consumed' = IF resp.Verified THEN consumed \cup {verifier[p].uid}
                                             ELSE consumed
    /\ UNCHANGED <<emailQueue, now, otps, otpLast, generated, sessionVars, waVars, routerVars>>

OTPInstants ==
    {0, 1, OTPExpirySeconds * TicksPerSec, OTPExpirySeconds * TicksPerSec + 1}

OTPTick ==
    /\ \E t \in OTPInstants : t > now /\ now' = t
    /\ otpLast' = NoOTPRequest
    /\ UNCHANGED <<emailQueue, otps, consumed, verifier, generated, sessionVars, waVars, routerVars>>

(***************************************************************************)
(* The WebAuthn service.                                                   *)
(***************************************************************************)
ChallengeExpiryMinutes == 5

\* base64.URLEncoding: EncodeToString pads its output with "=", DecodeString
\* fails on a string that is no padded base64.
B64Encode(bytes) == <<"b64", bytes>>

B64DecodeOK(str) == Len(str) = 2 /\ str[1] = "b64"

\* What DecodeString returns beside an error: the bytes decoded before it.
B64Decode(str) == IF B64DecodeOK(str) THEN str[2] ELSE ""

NotBase64 == <<"!">>

\* generateChallenge: the encoding of 32 random bytes is 43 characters and one
\* "=" of padding.  A challenge string is modelled by the bytes it encodes,
\* named by a number, and the number of "=" at its end.
generateChallenge(n) == [bytes |-> n, padding |-> 1]

NoChallenge == [bytes |-> -1, padding |-> 0]

\* strings.TrimRight(s, "=")
TrimRightEq(str) == [str EXCEPT !.padding = 0]

\* The users the requests name, by uid.
WAUsers == {"0x1", "0x2"}

\* createdAt, which nothing reads, is left out of the node.
storeChallenge(ch, challenge, userID, challengeType, t) ==
    Append(ch, [challenge |-> challenge,
                userId    |-> userID,
                type      |-> challengeType,
                expiresAt |-> FormatRFC3339(t + ChallengeExpiryMinutes * 60 * TicksPerSec)])

\* The uids the query of verifyChallenge returns.
ChallengesFound(ch, challenge, userID, challengeType) ==
    {i \in 1..Len(ch) : /\ ch[i].challenge = challenge
                        /\ ch[i].userId = userID
                        /\ ch[i].type = challengeType}

\* The variant that does not look at the expiry.
verifyChallenge_NoExpiry(ch, challenge, userID, challengeType, queryOK, t) ==
    LET found == ChallengesFound(ch, challenge, userID, challengeType)
    IN  IF ~queryOK THEN "query failed"
        ELSE IF found = {} THEN "challenge not found"
        ELSE "ok"

\* verifyChallenge: "ok", or the error it returns.
verifyChallenge(ch, challenge, userID, challengeType, queryOK, t) ==
    LET found == ChallengesFound(ch, challenge, userID, challengeType)
    IN  IF ~queryOK THEN "query failed"
        ELSE IF found = {} THEN "challenge not found"
        ELSE IF t > ParseRFC3339(ch[Min(found)].expiresAt) THEN "challenge expired"
        ELSE "ok"

\* transports and addedAt, which nothing reads, are left out of the node.
storeCredential(cr, userID, credentialID, publicKey) ==
    Append(cr, [user |-> userID, credentialId |-> credentialID,
                publicKey |-> publicKey, signCount |-> 0])

RECURSIVE CredentialIDsFrom(_, _, _)
CredentialIDsFrom(cr, userID, i) ==
    IF i > Len(cr) THEN <<>>
    ELSE (IF cr[i].user = userID THEN <<cr[i].credentialId>> ELSE <<>>)
            \o CredentialIDsFrom(cr, userID, i + 1)

\* getUserCredentials: the credentialIds of the user's credentials.
getUserCredentials(cr, userID) == CredentialIDsFrom(cr, userID, 1)

\* The bytes of a client data JSON document, and of something that is none.
ClientDataBytes(type, challenge, origin) ==
    [json |-> TRUE, type |-> type, challenge |-> challenge, origin |-> origin]

NotJSON == [json |-> FALSE, type |-> "", challenge |-> NoChallenge, origin |-> ""]

\* parseClientDataJSON: err, or the fields of the document.
parseClientDataJSON(clientDataJSON) ==
    IF ~B64DecodeOK(clientDataJSON)
    THEN [err |-> TRUE, Type |-> "", Challenge |-> NoChallenge, Origin |-> ""]
    ELSE LET decoded == B64Decode(clientDataJSON)
         IN  IF ~decoded.json
             THEN [err |-> TRUE, Type |-> "", Challenge |-> NoChallenge, Origin |-> ""]
             ELSE [err |-> FALSE, Type |-> decoded.type,
                   Challenge |-> decoded.challenge, Origin |-> decoded.origin]

sha256Sum(bytes) == <<"sha256", bytes>>

\* parseAttestationObject: both values are cut from the hash of the decoded
\* bytes, the credential id from its first 16 bytes.
parseAttestationObject(attestationObject) ==
    IF ~B64DecodeOK(attestationObject)
    THEN [err |-> TRUE, credentialID |-> <<>>, publicKey |-> <<>>]
    ELSE LET hash == sha256Sum(B64Decode(attestationObject))
         IN  [err |-> FALSE,
              credentialID |-> B64Encode(<<hash, "0:16">>),
              publicKey |-> B64Encode(<<hash, "16:32">>)]

\* extractCredentialID drops the decoding error and hashes what was decoded.
extractCredentialID(authenticatorData) ==
    B64Encode(<<sha256Sum(B64Decode(authenticatorData)), "0:16">>)

\* getCredentialByID queries nothing: it returns a credential made of the id
\* it was given, and no error.
getCredentialByID(cr, credentialID) ==
    [err |-> FALSE, CredentialID |-> credentialID, SignCount |-> 0]

\* updateCredentialSignCount writes nothing.
updateCredentialSignCount(cr, credentialID, signCount) == cr

\* deleteChallenge deletes nothing.
deleteChallenge(ch, challenge) == ch

WAFailed(message) == [Success |-> FALSE, Message |-> message, CredentialID |-> <<>>]

\* VerifyRegistration: the response and the store after it.  queryOK and
\* storeOK say whether the store answers the query and accepts the write.
VerifyRegistrationResp(ch, cr, req, queryOK, storeOK, t) ==
    LET verdict == verifyChallenge(ch, req.Challenge, req.UserID, "registration",
                                   queryOK, t)
        clientData == parseClientDataJSON(req.ClientDataJSON)
        att == parseAttestationObject(req.AttestationObject)
        unchanged(message) == [resp |-> WAFailed(message), challenges |-> ch, credentials |-> cr]
    IN  IF verdict # "ok" THEN unchanged("Challenge verification failed")
        ELSE IF clientData.err THEN unchanged("Invalid client data")
        ELSE IF clientData.Challenge # req.Challenge THEN unchanged("Challenge mismatch")
        ELSE IF att.err THEN unchanged("Invalid attestation object")
        ELSE IF ~storeOK THEN unchanged("Failed to store credential")
        ELSE [resp |-> [Success |-> TRUE, Message |-> "WebAuthn registration successful",
                        CredentialID |-> att.credentialID],
              challenges |-> deleteChallenge(ch, req.Challenge),
              credentials |-> storeCredential(cr, req.UserID, att.credentialID, att.publicKey)]

\* VerifyAuthentication: the response and the store after it.
VerifyAuthenticationResp(ch, cr, req, queryOK, t) ==
    LET verdict == verifyChallenge(ch, req.Challenge, req.UserID, "authentication",
                                   queryOK, t)
        clientData == parseClientDataJSON(req.ClientDataJSON)
        credentialID == extractCredentialID(req.AuthenticatorData)
        credential == getCredentialByID(cr, credentialID)
        unchanged(message) == [resp |-> WAFailed(message), challenges |-> ch, credentials |-> cr]
    IN  IF verdict # "ok" THEN unchanged("Challenge verification failed")
        ELSE IF clientData.err THEN unchanged("Invalid client data")
        ELSE IF TrimRightEq(clientData.Challenge) # TrimRightEq(req.Challenge)
        THEN unchanged("Challenge mismatch")
        ELSE IF credential.err THEN unchanged("Failed to get credential")
        ELSE [resp |-> [Success |-> TRUE, Message |-> "WebAuthn authentication successful",
                        CredentialID |-> credentialID],
              challenges |-> deleteChallenge(ch, req.Challenge),
              credentials |-> updateCredentialSignCount(cr, credentialID,
                                                        credential.SignCount + 1)]

\* The challenge strings a client may present: those it was given, and one,
\* without padding, that it was never given.
PresentedChallenges ==
    {challenges[i].challenge : i \in 1..Len(challenges)}
        \cup {TrimRightEq(generateChallenge(1))}

\* The client data a client may send with the challenge c: a document of the
\* ceremony ty from the relying party's origin, the same from another origin,
\* the same for the other ceremony, one with the challenge unpadded, one with
\* another challenge, and two strings that do not parse.
ClientDataInputs(c, ty, other) ==
    { B64Encode(ClientDataBytes(ty, c, "https://do-study.hypermode.host")),
      B64Encode(ClientDataBytes(ty, c, "https://evil.example")),
      B64Encode(ClientDataBytes(other, c, "https://do-study.hypermode.host")),
      B64Encode(ClientDataBytes(ty, TrimRightEq(c), "https://do-study.hypermode.host")),
      B64Encode(ClientDataBytes(ty, generateChallenge(0), "https://do-study.hypermode.host")),
      B64Encode(NotJSON),
      NotBase64 }

\* Attestation objects and authenticator data: two authenticators' bytes,
\* and a string that is no base64.
AuthenticatorInputs == {B64Encode("authenticator1"), B64Encode("authenticator2"), NotBase64}

\* The signature counter in the bytes of authenticator data (bytes 33 to 36):
\* the first authenticator keeps no counter and sends 0, the second sends 1.
\* No function of the service reads it.
SignCounterOf(bytes) == IF bytes = "authenticator2" THEN 1 ELSE 0

\* The parts of a request that its handler reads only after a test has
\* passed are varied only when that test passes.
ReadsClientData(ch, userID, challenge, challengeType, queryOK, t) ==
    verifyChallenge(ch, challenge, userID, challengeType, queryOK, t) = "ok"

RegistrationReadsAttestation(challenge, clientDataJSON) ==
    LET clientData == parseClientDataJSON(clientDataJSON)
    IN  ~clientData.err /\ clientData.Challenge = challenge

AuthenticationReadsAuthenticatorData(challenge, clientDataJSON) ==
    LET clientData == parseClientDataJSON(clientDataJSON)
    IN  ~clientData.err /\ TrimRightEq(clientData.Challenge) = TrimRightEq(challenge)

NoWARequest ==
    [op |-> "none", UserID |-> "", Challenge |-> NoChallenge, Type |-> "", Origin |-> "",
     Success |-> FALSE, Message |-> "", CredentialID |-> <<>>, Credentials |-> <<>>,
     ClientDataJSON |-> NotBase64, AuthenticatorData |-> NotBase64]

\* A challenge is made of the bytes the generator draws; no two draws give
\* the same 32 bytes, so the n-th challenge is named n.
CreateRegistrationChallenge ==
    /\ Len(challenges) < MaxChallenges
    /\ \E userID \in WAUsers, storeOK \in BOOLEAN, queryOK \in BOOLEAN :
         LET challenge == generateChallenge(Len(challenges) + 1)
         IN  /\ challenges' = IF storeOK
                              THEN storeChallenge(challenges, challenge, userID,
                                                  "registration", now)
                              ELSE challenges
             /\ waLast' = [NoWARequest EXCEPT
                             !.op = "createRegistration",
                             !.UserID = userID,
                             !.Success = storeOK,
                             !.Challenge = IF storeOK THEN challenge ELSE NoChallenge,
                             !.Credentials = IF storeOK /\ queryOK
                                             THEN getUserCredentials(credentials, userID)
                                             ELSE <<>>]
    /\ UNCHANGED <<emailQueue, now, credentials, sessionVars, otpVars, routerVars>>

CreateAuthenticationChallenge ==
    /\ Len(challenges) < MaxChallenges
    /\ \E userID \in WAUsers, storeOK \in BOOLEAN, queryOK \in BOOLEAN :
         LET challenge == generateChallenge(Len(challenges) + 1)
         IN  /\ challenges' = IF storeOK
                              THEN storeChallenge(challenges, challenge, userID,
                                                  "authentication", now)
                              ELSE challenges
             /\ waLast' = [NoWARequest EXCEPT
                             !.op = "createAuthentication",
                             !.UserID = userID,
                             !.Success = storeOK /\ queryOK,
                             !.Challenge = IF storeOK /\ queryOK THEN challenge ELSE NoChallenge,
                             !.Credentials = IF storeOK /\ queryOK
                                             THEN getUserCredentials(credentials, userID)
                                             ELSE <<>>]
    /\ UNCHANGED <<emailQueue, now, credentials, sessionVars, otpVars, routerVars>>

VerifyRegistration ==
    /\ Len(credentials) < MaxCredentials
    /\ \E userID \in WAUsers, challenge \in PresentedChallenges, queryOK \in BOOLEAN :
       \E clientDataJSON \in
            IF ReadsClientData(challenges, userID, challenge, "registration", queryOK, now)
            THEN ClientDataInputs(challenge, "webauthn.create", "webauthn.get")
            ELSE {NotBase64} :
       \E attestationObject \in
            IF RegistrationReadsAttestation(challenge, clientDataJSON)
            THEN AuthenticatorInputs ELSE {NotBase64} :
       \E storeOK \in
            IF parseAttestationObject(attestationObject).err THEN {TRUE} ELSE BOOLEAN :
         LET req == [UserID |-> userID, Challenge |-> challenge,
                     ClientDataJSON |-> clientDataJSON,
                     AttestationObject |-> attestationObject]
             r == VerifyRegistrationResp(challenges, credentials, req, queryOK, storeOK, now)
             clientData == parseClientDataJSON(clientDataJSON)
         IN  /\ challenges' = r.challenges
             /\ credentials' = r.credentials
             /\ waLast' = [NoWARequest EXCEPT
                             !.op = "verifyRegistration",
                             !.UserID = userID,
                             !.Challenge = challenge,
                             !.Type = clientData.Type,
                             !.Origin = clientData.Origin,
                             !.Success = r.resp.Success,
                             !.Message = r.resp.Message,
                             !.CredentialID = r.resp.CredentialID]
    /\ UNCHANGED <<emailQueue, now, sessionVars, otpVars, routerVars>>

VerifyAuthentication ==
    /\ \E userID \in WAUsers, challenge \in PresentedChallenges, queryOK \in BOOLEAN :
       \E clientDataJSON \in
            IF ReadsClientData(challenges, userID, challenge, "authentication", queryOK, now)
            THEN ClientDataInputs(challenge, "webauthn.get", "webauthn.create")
            ELSE {NotBase64} :
       \E authenticatorData \in
            IF AuthenticationReadsAuthenticatorData(challenge, clientDataJSON)
            THEN AuthenticatorInputs ELSE {NotBase64} :
         LET req == [UserID |-> userID, Challenge |-> challenge,
                     ClientDataJSON |-> clientDataJSON,
                     AuthenticatorData |-> authenticatorData]
             r == VerifyAuthenticationResp(challenges, credentials, req, queryOK, now)
             clientData == parseClientDataJSON(clientDataJSON)
         IN  /\ challenges' = r.challenges
             /\ credentials' = r.credentials
             /\ waLast' = [NoWARequest EXCEPT
                             !.op = "verifyAuthentication",
                             !.UserID = userID,
                             !.Challenge = challenge,
                             !.Type = clientData.Type,
                             !.Origin = clientData.Origin,
                             !.Success = r.resp.Success,
                             !.Message = r.resp.Message,
                             !.CredentialID = r.resp.CredentialID,
                             !.ClientDataJSON = IF r.resp.Success THEN clientDataJSON
                                                                  ELSE NotBase64,
                             !.AuthenticatorData = IF r.resp.Success THEN authenticatorData
                                                                     ELSE NotBase64]
    /\ UNCHANGED <<emailQueue, now, sessionVars, otpVars, routerVars>>

WAInstants ==
    {0, 1, ChallengeExpiryMinutes * 60 * TicksPerSec,
     ChallengeExpiryMinutes * 60 * TicksPerSec + 1}

WATick ==
    /\ \E t \in WAInstants : t > now /\ now' = t
    /\ waLast' = NoWARequest
    /\ UNCHANGED <<emailQueue, challenges, credentials, sessionVars, otpVars, routerVars>>

(***************************************************************************)
(* CerberusMFA: the router.                                                *)
(***************************************************************************)

\* A channelDID is a string, here the sequence of its characters.  The first
\* two differ in their first character only; the third is shorter than 8.
ChannelDIDs ==
    { <<"a", "1", "2", "3", "4", "5", "6", "7", "8">>,
      <<"b", "1", "2", "3", "4", "5", "6", "7", "8">>,
      <<"a", "b", "c">> }

CerberusMFARequests ==
    { [ChannelDID |-> did, ChannelType |-> "email"] : did \in ChannelDIDs }
        \cup {[ChannelDID |-> <<"a", "1", "2", "3", "4", "5", "6", "7", "8">>,
               ChannelType |-> "sms"]}

\* channelDID[len(channelDID)-8:], which panics on a string of fewer than 8
\* characters.
LastEightPanics(channelDID) == Len(channelDID) < 8

LastEight(channelDID) == SubSeq(channelDID, Len(channelDID) - 7, Len(channelDID))

\* fmt.Sprintf("user_%d_%s", time.Now().Unix(), ...)
NewUserID(channelDID, t) == <<"user", Unix(t), LastEight(channelDID)>>

\* The uids the query of checkUserByChannel and of updateChannelLastUsed
\* returns.
ChannelsFound(uc, channelDID, channelType) ==
    {i \in 1..Len(uc) : uc[i].channelHash = channelDID /\ uc[i].channelType = channelType}

checkUserByChannel_AnyChannel(uc, channelDID, channelType, queryOK) ==
    LET found == ChannelsFound(uc, channelDID, channelType)
    IN  IF ~queryOK THEN [err |-> TRUE, exists |-> FALSE, userID |-> NoUserID]
        ELSE IF found # {}
        THEN [err |-> FALSE, exists |-> TRUE, userID |-> uc[Min(found)].userId]
        ELSE [err |-> FALSE, exists |-> FALSE, userID |-> NoUserID]

\* checkUserByChannel reads UserChannels[0] of the answer and reports a user
\* only when that node is verified.
checkUserByChannel(uc, channelDID, channelType, queryOK) ==
    LET found == ChannelsFound(uc, channelDID, channelType)
    IN  IF ~queryOK THEN [err |-> TRUE, exists |-> FALSE, userID |-> NoUserID]
        ELSE IF found # {} /\ uc[Min(found)].verified
        THEN [err |-> FALSE, exists |-> TRUE, userID |-> uc[Min(found)].userId]
        ELSE [err |-> FALSE, exists |-> FALSE, userID |-> NoUserID]

updateChannelLastUsed_NoWrite(uc, channelDID, channelType, storeOK, t) == uc

\* updateChannelLastUsed; its error is logged and dropped by the caller.
updateChannelLastUsed(uc, channelDID, channelType, storeOK, t) ==
    LET found == ChannelsFound(uc, channelDID, channelType)
    IN  IF found # {} /\ storeOK
        THEN [uc EXCEPT ![Min(found)].lastUsedAt = FormatRFC3339(t)]
        ELSE uc

CreateUserChannel(uc, userID, channelDID, channelType, verified, primary, t) ==
    Append(uc, [userId |-> userID, channelType |-> channelType,
                channelHash |-> channelDID, verified |-> verified,
                primary |-> primary, createdAt |-> FormatRFC3339(t),
                lastUsedAt |-> FormatRFC3339(t)])

\* The user mutation of CreateNewUser.
CreateUserNode(us, userID, hasRole, t) ==
    Append(us, [status |-> "PENDING", did |-> userID, hasRole |-> hasRole,
                emailDID |-> <<>>, phoneDID |-> <<>>,
                createdAt |-> FormatRFC3339(t)])

\* The response of CerberusMFA; both the sign-in and the register response
\* carry AvailableMethods: []string{"webauthn", "passwordless"}.
MFAResponse(userExists, action, userID) ==
    [UserExists |-> userExists, Action |-> action, UserID |-> userID,
     AvailableMethods |-> IF action \in {"signin", "register"}
                          THEN <<"webauthn", "passwordless">> ELSE <<>>]

NoMFAResponse == MFAResponse(FALSE, "", NoUserID)

IdleRouter ==
    [pc |-> "idle", req |-> [ChannelDID |-> <<>>, ChannelType |-> ""],
     userID |-> NoUserID, newUserUID |-> 0, resp |-> NoMFAResponse]

Routers == 1..NumRouters

\* CerberusMFA, one store call at a time.  First the channel query; a miss
\* goes on to CreateNewUser, which mints the user id before its first store
\* call.  outcome is "panic" when the request is aborted by the slice.
RouterCheck(p) ==
    /\ router[p].pc = "idle"
    /\ \A q \in Routers : q < p => router[q].pc # "idle"
    /\ \E req \in CerberusMFARequests, queryOK \in BOOLEAN :
         LET c == checkUserByChannel(userChannels, req.ChannelDID, req.ChannelType, queryOK)
         IN  router' = [router EXCEPT ![p] =
               IF c.err
               THEN [IdleRouter EXCEPT !.pc = "done", !.req = req,
                                      !.resp = MFAResponse(FALSE, "failed", NoUserID)]
               ELSE IF c.exists
               THEN [IdleRouter EXCEPT !.pc = "touch", !.req = req, !.userID = c.userID]
               ELSE IF LastEightPanics(req.ChannelDID)
               THEN [IdleRouter EXCEPT !.pc = "done", !.req = req,
                                      !.resp = MFAResponse(FALSE, "panic", NoUserID)]
               ELSE [IdleRouter EXCEPT !.pc = "create", !.req = req,
                                      !.userID = NewUserID(req.ChannelDID, now)]]
    /\ UNCHANGED <<emailQueue, now, users, userChannels, routeLast, sessionVars, otpVars, waVars>>

\* The sign-in branch: updateChannelLastUsed, then the response.
RouterTouch(p) ==
    /\ router[p].pc = "touch"
    /\ \E storeOK \in BOOLEAN :
         userChannels' = updateChannelLastUsed(userChannels, router[p].req.ChannelDID,
                                               router[p].req.ChannelType, storeOK, now)
    /\ router' = [router EXCEPT ![p].pc = "done",
                                ![p].resp = MFAResponse(TRUE, "signin", router[p].userID)]
    /\ UNCHANGED <<emailQueue, now, users, routeLast, sessionVars, otpVars, waVars>>

\* CreateNewUser: the role query, which reads nodes no request writes, and the
\* user mutation.
RouterCreateUser(p) ==
    /\ router[p].pc = "create"
    /\ \E roleQueryOK \in BOOLEAN, hasRole \in BOOLEAN, storeOK \in BOOLEAN :
         IF roleQueryOK /\ storeOK
         THEN /\ users' = CreateUserNode(users, router[p].userID, hasRole, now)
              /\ router' = [router EXCEPT ![p].pc = "channel",
                                          ![p].newUserUID = Len(users) + 1]
         ELSE /\ users' = users
              /\ router' = [router EXCEPT ![p].pc = "done",
                                          ![p].userID = NoUserID,
                                          ![p].resp = MFAResponse(FALSE, "error", NoUserID)]
    /\ UNCHANGED <<emailQueue, now, userChannels, routeLast, sessionVars, otpVars, waVars>>

\* CreateNewUser: CreateUserChannel, whose error is logged and dropped, and
\* the response of CerberusMFA.
RouterCreateChannel(p) ==
    /\ router[p].pc = "channel"
    /\ \E storeOK \in BOOLEAN :
         userChannels' = IF storeOK
                         THEN CreateUserChannel(userChannels, router[p].userID,
                                                router[p].req.ChannelDID,
                                                router[p].req.ChannelType, TRUE, TRUE, now)
                         ELSE userChannels
    /\ router' = [router EXCEPT ![p].pc = "done",
                                ![p].resp = MFAResponse(TRUE, "register", router[p].userID)]
    /\ UNCHANGED <<emailQueue, now, users, routeLast, sessionVars, otpVars, waVars>>

\* CreateNewUser as one call: the user id, the role query, the user mutation
\* and CreateUserChannel.  fault names the store call that fails, if any.
CreateNewUser(us, uc, channelDID, channelType, fault, hasRole, t) ==
    LET userID == NewUserID(channelDID, t)
    IN  IF LastEightPanics(channelDID)
        THEN [outcome |-> "panic", userID |-> NoUserID, users |-> us, userChannels |-> uc]
        ELSE IF fault \in {"roleQuery", "user"}
        THEN [outcome |-> "error", userID |-> NoUserID, users |-> us, userChannels |-> uc]
        ELSE [outcome |-> "ok", userID |-> userID,
              users |-> CreateUserNode(us, userID, hasRole, t),
              userChannels |-> IF fault = "channel" THEN uc
                               ELSE CreateUserChannel(uc, userID, channelDID,
                                                      channelType, TRUE, TRUE, t)]

RouterFaults == {"none", "query", "touch", "roleQuery", "user", "channel"}

\* CerberusMFA as one call: its response and the store it leaves.  The
\* Action "failed" stands for the (nil, error) return and "panic" for the
\* request aborted by the slice in CreateNewUser.
CerberusMFAResp(us, uc, req, fault, hasRole, t) ==
    LET c == checkUserByChannel(uc, req.ChannelDID, req.ChannelType, fault # "query")
        n == CreateNewUser(us, uc, req.ChannelDID, req.ChannelType, fault, hasRole, t)
    IN  IF c.err
        THEN [resp |-> MFAResponse(FALSE, "failed", NoUserID), users |-> us,
              userChannels |-> uc]
        ELSE IF c.exists
        THEN [resp |-> MFAResponse(TRUE, "signin", c.userID), users |-> us,
              userChannels |-> updateChannelLastUsed(uc, req.ChannelDID, req.ChannelType,
                                                     fault # "touch", t)]
        ELSE IF n.outcome = "panic"
        THEN [resp |-> MFAResponse(FALSE, "panic", NoUserID), users |-> us,
              userChannels |-> uc]
        ELSE IF n.outcome = "error"
        THEN [resp |-> MFAResponse(FALSE, "error", NoUserID), users |-> us,
              userChannels |-> uc]
        ELSE [resp |-> MFAResponse(TRUE, "register", n.userID), users |-> n.users,
              userChannels |-> n.userChannels]

\* The store calls a request reaches: only their failures are inputs.
RouterFaultsReached(uc, req) ==
    LET c == checkUserByChannel(uc, req.ChannelDID, req.ChannelType, TRUE)
    IN  IF c.exists THEN {"none", "query", "touch"}
        ELSE IF LastEightPanics(req.ChannelDID) THEN {"none", "query"}
        ELSE {"none", "query", "roleQuery", "user", "channel"}

NoRouteRequest ==
    [op |-> "none", req |-> [ChannelDID |-> <<>>, ChannelType |-> ""],
     fault |-> "none", hit |-> 0, users |-> 0, userChannels |-> 0,
     resp |-> NoMFAResponse]

\* A routing request served from start to end, with the role "registered"
\* present in the store.  The record keeps the uid of
\* the node the channel query put first (0 when it matched none) and the
\* number of User and UserChannels nodes the request found.
CerberusMFA ==
    /\ \E req \in CerberusMFARequests :
         \E fault \in RouterFaultsReached(userChannels, req) :
             LET r == CerberusMFAResp(users, userChannels, req, fault, TRUE, now)
                 found == ChannelsFound(userChannels, req.ChannelDID, req.ChannelType)
             IN  /\ Len(r.users) <= MaxUsers
                 /\ Len(r.userChannels) <= MaxUserChannels
                 /\ users' = r.users
                 /\ userChannels' = r.userChannels
                 /\ routeLast' = [op |-> "route", req |-> req, fault |-> fault,
                                  hit |-> IF found = {} THEN 0 ELSE Min(found),
                                  users |-> Len(users),
                                  userChannels |-> Len(userChannels),
                                  resp |-> r.resp]
    /\ UNCHANGED <<emailQueue, now, router, sessionVars, otpVars, waVars>>

\* The response SigninUser builds from the response of CheckUserAndRoute,
\* which is that of CerberusMFA.  The (nil, error) return and the abort are
\* passed on.
SigninUserResp(route) ==
    IF route.Action \in {"failed", "panic"} THEN route
    ELSE IF ~route.UserExists
    THEN [UserExists |-> FALSE, Action |-> "register", UserID |-> NoUserID,
          AvailableMethods |-> <<>>]
    ELSE [UserExists |-> TRUE, Action |-> "signin", UserID |-> route.UserID,
          AvailableMethods |-> route.AvailableMethods]

\* The response RegisterUser of the entry points builds from the response
\* of CheckUserAndRoute.
RegisterUserResp(route) ==
    IF route.Action \in {"failed", "panic"} THEN route
    ELSE IF route.UserExists
    THEN [UserExists |-> TRUE, Action |-> "signin", UserID |-> NoUserID,
          AvailableMethods |-> <<>>]
    ELSE [UserExists |-> FALSE, Action |-> "register", UserID |-> NoUserID,
          AvailableMethods |-> <<"profile_creation", "identity_verification">>]

\* An entry point served from start to end: CheckUserAndRoute, that is
\* CerberusMFA with its writes, and then the response of the entry point.
EntryPoint(op, req, fault) ==
    LET r == CerberusMFAResp(users, userChannels, req, fault, TRUE, now)
        found == ChannelsFound(userChannels, req.ChannelDID, req.ChannelType)
    IN  /\ Len(r.users) <= MaxUsers
        /\ Len(r.userChannels) <= MaxUserChannels
        /\ users' = r.users
        /\ userChannels' = r.userChannels
        /\ routeLast' = [op |-> op, req |-> req, fault |-> fault,
                         hit |-> IF found = {} THEN 0 ELSE Min(found),
                         users |-> Len(users),
                         userChannels |-> Len(userChannels),
                         resp |-> IF op = "SigninUser" THEN SigninUserResp(r.resp)
                                  ELSE RegisterUserResp(r.resp)]
        /\ UNCHANGED <<emailQueue, now, router, sessionVars, otpVars, waVars>>

SigninUser ==
    \E req \in CerberusMFARequests :
        \E fault \in RouterFaultsReached(userChannels, req) :
            EntryPoint("SigninUser", req, fault)

\* RegisterUser of the entry points (webauthn.go), not that of
\* HecateRegister.
RegisterUserEntry ==
    \E req \in CerberusMFARequests :
        \E fault \in RouterFaultsReached(userChannels, req) :
            EntryPoint("RegisterUser", req, fault)

\* The user id a registration flow outside the router passes to
\* CreateUserChannel.
RegistrationFlowUserID == <<"user", 0, <<"f", "l", "o", "w">>>>

\* The pairs a registration flow outside the router registers.
RegistrationFlowRequests ==
    {req \in CerberusMFARequests : req.ChannelType = "email" /\ req.ChannelDID[1] = "a"
                                    /\ ~LastEightPanics(req.ChannelDID)}

\* CreateUserChannel called by a registration flow for a channel it has not
\* verified yet.
CallCreateUserChannel ==
    /\ Len(userChannels) < MaxUserChannels
    /\ \E req \in RegistrationFlowRequests, storeOK \in BOOLEAN :
         /\ userChannels' = IF storeOK
                            THEN CreateUserChannel(userChannels, RegistrationFlowUserID,
                                                   req.ChannelDID, req.ChannelType,
                                                   FALSE, TRUE, now)
                            ELSE userChannels
         /\ routeLast' = [NoRouteRequest EXCEPT !.op = "createChannel", !.req = req,
                                               !.users = Len(users),
                                               !.userChannels = Len(userChannels)]
    /\ UNCHANGED <<emailQueue, now, users, router, sessionVars, otpVars, waVars>>

RouterInstants == {0, 1, TicksPerSec}

RouterTick ==
    /\ \E t \in RouterInstants : t > now /\ now' = t
    /\ routeLast' = NoRouteRequest
    /\ UNCHANGED <<emailQueue, users, userChannels, router, sessionVars, otpVars, waVars>>

(***************************************************************************)
(* AsyncEmailQueue: the queue of the email service, with its worker and    *)
(* retry goroutines running as worker and retryProcessor are written.      *)
(* Start of this build leaves running false, and QueueEmail then refuses   *)
(* every request; the model is of the queue once running is set.           *)
(* An item is the index of its record in items; queue is the channel,      *)
(* retryQueue the slice, holding[w] the item worker w has received and not  *)
(* yet processed (0 for none).                                             *)
(***************************************************************************)
MaxAttempts == 3

EmailWorkers == 1..NumWorkers

\* time.Duration(item.Attempts*item.Attempts) * time.Minute, in ticks
Backoff(attempts) == attempts * attempts * 60 * TicksPerSec

NewEmailItem(t) ==
    [Attempts |-> 0, NextRetry |-> t, handed |-> 0, OnSuccess |-> 0, OnError |-> 0]

\* The queue after NewAsyncEmailQueue, with idle workers.
NewAsyncEmailQueue ==
    [queue |-> <<>>, retryQueue |-> <<>>, items |-> <<>>,
     holding |-> [w \in EmailWorkers |-> 0], op |-> "none", full |-> FALSE]

\* QueueEmail: a new item is sent to the channel, or the request is refused
\* with "email queue is full" and the item dropped.
QueueEmail ==
    /\ Len(emailQueue.items) < MaxEmails
    /\ emailQueue' =
         IF Len(emailQueue.queue) < QueueSize
         THEN [emailQueue EXCEPT
                  !.items = Append(@, NewEmailItem(now)),
                  !.queue = Append(@, Len(emailQueue.items) + 1),
                  !.op = "QueueEmail", !.full = FALSE]
         ELSE [emailQueue EXCEPT !.op = "QueueEmail", !.full = TRUE]
    /\ UNCHANGED <<now, sessionVars, otpVars, waVars, routerVars>>

\* worker: the receive from the channel.
WorkerReceive(w) ==
    /\ emailQueue.holding[w] = 0
    /\ emailQueue.queue # <<>>
    /\ emailQueue' = [emailQueue EXCEPT
                         !.holding[w] = Head(emailQueue.queue),
                         !.queue = Tail(@),
                         !.op = "receive", !.full = FALSE]
    /\ UNCHANGED <<now, sessionVars, otpVars, waVars, routerVars>>

\* processEmailItem: the item after the attempt, sent says whether the
\* provider reported success.
processEmailItem(item, sent, t) ==
    LET attempts == item.Attempts + 1
        tried == [item EXCEPT !.Attempts = attempts, !.handed = @ + 1]
    IN  IF sent THEN [tried EXCEPT !.OnSuccess = @ + 1]
        ELSE IF attempts < MaxAttempts
        THEN [tried EXCEPT !.NextRetry = t + Backoff(attempts)]
        ELSE [tried EXCEPT !.OnError = @ + 1]

\* worker: processEmailItem on the item received; a failed item with
\* attempts left is appended to the retry queue.
WorkerProcess(w) ==
    /\ emailQueue.holding[w] # 0
    /\ \E sent \in BOOLEAN :
         LET id == emailQueue.holding[w]
             item == processEmailItem(emailQueue.items[id], sent, now)
         IN  emailQueue' = [emailQueue EXCEPT
                               !.items[id] = item,
                               !.retryQueue = IF ~sent /\ item.Attempts < MaxAttempts
                                              THEN Append(@, id) ELSE @,
                               !.holding[w] = 0,
                               !.op = "processEmailItem", !.full = FALSE]
    /\ UNCHANGED <<now, sessionVars, otpVars, waVars, routerVars>>

\* The items of a slice that satisfy, or do not satisfy, now.After(NextRetry),
\* in the order of the slice.
RECURSIVE ReadyToRetry(_, _, _, _)
ReadyToRetry(retry, items, t, ready) ==
    IF retry = <<>> THEN <<>>
    ELSE LET rest == ReadyToRetry(Tail(retry), items, t, ready)
         IN  IF (t > items[Head(retry)].NextRetry) = ready
             THEN <<Head(retry)>> \o rest ELSE rest

\* The second loop of processRetries: each ready item is sent to the channel,
\* or appended to the retry queue when the channel is full.
RECURSIVE Requeue(_, _, _)
Requeue(ready, queue, retry) ==
    IF ready = <<>> THEN [queue |-> queue, retryQueue |-> retry, full |-> FALSE]
    ELSE IF Len(queue) < QueueSize
    THEN Requeue(Tail(ready), Append(queue, Head(ready)), retry)
    ELSE [Requeue(Tail(ready), queue, Append(retry, Head(ready)))
             EXCEPT !.full = TRUE]

\* The variant of processRetries that gives up an item when the channel is
\* full.
processRetries_DropWhenFull(q, t) ==
    LET r == Requeue(ReadyToRetry(q.retryQueue, q.items, t, TRUE), q.queue,
                     ReadyToRetry(q.retryQueue, q.items, t, FALSE))
    IN  [q EXCEPT !.queue = r.queue,
                  !.retryQueue = ReadyToRetry(q.retryQueue, q.items, t, FALSE),
                  !.op = "processRetries", !.full = r.full]

\* processRetries, which runs under the mutex of the queue.
processRetries(q, t) ==
    LET r == Requeue(ReadyToRetry(q.retryQueue, q.items, t, TRUE), q.queue,
                     ReadyToRetry(q.retryQueue, q.items, t, FALSE))
    IN  [q EXCEPT !.queue = r.queue, !.retryQueue = r.retryQueue,
                  !.op = "processRetries", !.full = r.full]

\* retryProcessor: a tick of the retry ticker.
RetryProcessor ==
    /\ emailQueue.retryQueue # <<>>
    /\ emailQueue' = processRetries(emailQueue, now)
    /\ UNCHANGED <<now, sessionVars, otpVars, waVars, routerVars>>

\* The instants at which the goroutines run: the start, past the backoff of
\* a first failure made at the start, and past that of a second.
QueueInstants == {0, Backoff(1) + 1, Backoff(1) + Backoff(2) + 2}

QueueTick ==
    /\ \E t \in QueueInstants : t > now /\ now' = t
    /\ emailQueue' = [emailQueue EXCEPT !.op = "none", !.full = FALSE]
    /\ UNCHANGED <<sessionVars, otpVars, waVars, routerVars>>

(***************************************************************************)
(* The front door: the OTP engine, then the router or the registration.   *)
(***************************************************************************)

\* hex.EncodeToString of a digest: the channelDID as the string the client
\* receives from VerifyOTP and hands to the router.
HexDigest(h) ==
    CASE h = generateChannelDID("email", "a@b.test")
           -> <<"a", "1", "2", "3", "4", "5", "6", "7", "8">>
      [] h = generateChannelDID("sms", "c@d.test")
           -> <<"b", "1", "2", "3", "4", "5", "6", "7", "8">>

\* The last request was a VerifyOTP that returned verified = true.
JustVerified == otpLast.op = "verify" /\ otpLast.resp.Verified

\* CheckUserAndRoute: the client hands the channelDID VerifyOTP returned, and
\* the channel type of its code, to CerberusMFA.
CheckUserAndRoute ==
    /\ JustVerified
    /\ LET req == [ChannelDID |-> HexDigest(otpLast.resp.ChannelDID),
                   ChannelType |-> otps[otpLast.uid].channelType]
           found == ChannelsFound(userChannels, req.ChannelDID, req.ChannelType)
       IN  \E fault \in RouterFaultsReached(userChannels, req) :
             LET r == CerberusMFAResp(users, userChannels, req, fault, TRUE, now)
             IN  /\ Len(r.users) <= MaxUsers
                 /\ Len(r.userChannels) <= MaxUserChannels
                 /\ users' = r.users
                 /\ userChannels' = r.userChannels
                 /\ routeLast' = [op |-> "route", req |-> req, fault |-> fault,
                                  hit |-> IF found = {} THEN 0 ELSE Min(found),
                                  users |-> Len(users),
                                  userChannels |-> Len(userChannels),
                                  resp |-> r.resp]
    /\ UNCHANGED <<emailQueue, now, router, sessionVars, otpVars, waVars>>

\* createUserInDgraph of HecateRegister: a User node with the channelDID in
\* emailDID or phoneDID and the status "active"; any other channel type is
\* an error.
createUserInDgraph(us, channelDID, channelType, t) ==
    Append(us, [status |-> "active", did |-> NoUserID, hasRole |-> FALSE,
                emailDID |-> IF channelType = "email" THEN channelDID ELSE <<>>,
                phoneDID |-> IF channelType = "phone" THEN channelDID ELSE <<>>,
                createdAt |-> FormatRFC3339(t)])

\* RegisterUser of HecateRegister, called with the channelDID VerifyOTP
\* returned.
RegisterUser ==
    /\ JustVerified
    /\ Len(users) < MaxUsers
    /\ \E storeOK \in BOOLEAN :
         LET channelType == otps[otpLast.uid].channelType
             ok == storeOK /\ channelType \in {"email", "phone"}
         IN  /\ users' = IF ok
                         THEN createUserInDgraph(users, otpLast.resp.ChannelDID,
                                                 channelType, now)
                         ELSE users
             /\ routeLast' = [NoRouteRequest EXCEPT
                                !.op = IF ok THEN "registerUser" ELSE "registerUserError",
                                !.users = Len(users),
                                !.userChannels = Len(userChannels)]
    /\ UNCHANGED <<emailQueue, now, userChannels, router, sessionVars, otpVars, waVars>>

\* The instants of the front door: a code is sent, verified and routed within
\* its lifetime.
FrontDoorInstants == {0, 1}

FrontDoorTick ==
    /\ \E t \in FrontDoorInstants : t > now /\ now' = t
    /\ otpLast' = NoOTPRequest
    /\ routeLast' = NoRouteRequest
    /\ UNCHANGED <<emailQueue, otps, consumed, verifier, generated, users, userChannels, router,
                   sessionVars, waVars>>

(***************************************************************************)
(* The initial state and the specifications, one per subsystem.            *)
(***************************************************************************)
InitStore ==
    /\ now = 0
    /\ sessions = <<>>
    /\ last = NoRequest
    /\ revoked = {}
    /\ fresh = {}
    /\ refresher = [p \in Refreshers |-> IdleRefresher]
    /\ otps = <<>>
    /\ otpLast = NoOTPRequest
    /\ consumed = {}
    /\ verifier = [p \in Verifiers |-> IdleVerifier]
    /\ challenges = <<>>
    /\ credentials = <<>>
    /\ waLast = NoWARequest
    /\ users = <<>>
    /\ userChannels = <<>>
    /\ router = [p \in Routers |-> IdleRouter]
    /\ routeLast = NoRouteRequest
    /\ emailQueue = NewAsyncEmailQueue

Init == InitStore /\ generated = NoDraw

\* generateOTP on its own: the random source returns any value of its range.
InitGenerateOTP ==
    InitStore /\ generated \in {[NoDraw EXCEPT !.n = n] : n \in RandDraws}

NextGenerateOTP == GenerateOTP

SpecGenerateOTP == InitGenerateOTP /\ [][NextGenerateOTP]_vars

NextFrontDoor ==
    \/ SendOTP
    \/ VerifyOTP
    \/ CheckUserAndRoute
    \/ RegisterUser
    \/ FrontDoorTick

SpecFrontDoor == Init /\ [][NextFrontDoor]_vars

\* Enrolment: the router registers users, and a registered user enrols a
\* credential.
NextEnrolment ==
    \/ CerberusMFA
    \/ CreateRegistrationChallenge
    \/ VerifyRegistration

SpecEnrolment == Init /\ [][NextEnrolment]_vars

NextSession ==
    \/ IssueSession
    \/ ValidateSession
    \/ RefreshSession
    \/ RevokeSession
    \/ SessionTick

SpecSession == Init /\ [][NextSession]_vars

\* Concurrent refreshes of issued tokens, beside IssueSession and
\* RevokeSession.
\* The instants at which ValidateSession is called: the start and a second
\* later, when lastUsed takes a new value.
ValidateInstants == {0, TicksPerSec}

ValidateTick ==
    /\ \E t \in ValidateInstants : t > now /\ now' = t
    /\ last' = NoRequest
    /\ UNCHANGED <<emailQueue, sessions, revoked, fresh, refresher, otpVars, waVars, routerVars>>

NextSessionFaults ==
    \/ IssueSession
    \/ ValidateSessionUnderFaults
    \/ RevokeSession
    \/ ValidateTick

SpecSessionFaults == Init /\ [][NextSessionFaults]_vars

NextSessionConc ==
    \/ IssueSession
    \/ RevokeSession
    \/ \E p \in Refreshers : RefresherValidate(p)
    \/ \E p \in Refreshers : RefresherIssue(p)
    \/ \E p \in Refreshers : RefresherRevoke(p)
    \/ RefresherTick

SpecSessionConc == Init /\ [][NextSessionConc]_vars

NextOTP ==
    \/ SendOTP
    \/ VerifyOTP
    \/ OTPTick

SpecOTP == Init /\ [][NextOTP]_vars

NextOTPConc ==
    \/ SendOTP
    \/ \E p \in Verifiers : VerifierQuery(p)
    \/ \E p \in Verifiers : VerifierMark(p)
    \/ \E p \in Verifiers : VerifierPost(p)
    \/ OTPTick

SpecOTPConc == Init /\ [][NextOTPConc]_vars

NextWebAuthn ==
    \/ CreateRegistrationChallenge
    \/ VerifyRegistration
    \/ CreateAuthenticationChallenge
    \/ VerifyAuthentication
    \/ WATick

SpecWebAuthn == Init /\ [][NextWebAuthn]_vars

NextRouterConc ==
    \/ \E p \in Routers : RouterCheck(p)
    \/ \E p \in Routers : RouterTouch(p)
    \/ \E p \in Routers : RouterCreateUser(p)
    \/ \E p \in Routers : RouterCreateChannel(p)
    \/ RouterTick

SpecRouterConc == Init /\ [][NextRouterConc]_vars

NextEmailQueue ==
    \/ QueueEmail
    \/ \E w \in EmailWorkers : WorkerReceive(w)
    \/ \E w \in EmailWorkers : WorkerProcess(w)
    \/ RetryProcessor
    \/ QueueTick

SpecEmailQueue == Init /\ [][NextEmailQueue]_vars

NextEntryPoints ==
    \/ SigninUser
    \/ RegisterUserEntry
    \/ RouterTick

SpecEntryPoints == Init /\ [][NextEntryPoints]_vars

NextRouter ==
    \/ CerberusMFA
    \/ CallCreateUserChannel
    \/ RouterTick

SpecRouter == Init /\ [][NextRouter]_vars

(***************************************************************************)
(* Session engine: the claims.                                             *)
(***************************************************************************)

\* the first AuthSession node a query by the token's hash returns
FirstSession(token) == sessions[Min(SessionsByHash(sessions, token))]

\* C5: after RevokeSession(t) has returned revoked=true, in every later state
\* ValidateSession(t) answers valid=false and RefreshSession(t) fails and stores
\* no new session, whatever was requested in between.
C5_RevocationIsFinal ==
    \A t \in revoked :
        /\ ~ValidateSessionResp(sessions, t, now).valid
        /\ ~RefreshSessionResp(sessions, t, TRUE, now).ok
        /\ Len(RefreshSessionResp(sessions, t, TRUE, now).sessions) = Len(sessions)
        /\ (last.op \in {"validate", "refresh"} /\ last.token = t) => ~last.ok

\* C5, its case: a revoked token whose signature and exp claim are still good,
\* and of which a second node with the same hash is still valid, is validated
\* and the answer is valid=false.
C5_Witness ==
    /\ last.op = "validate"
    /\ last.token \in revoked
    /\ ~last.ok
    /\ jwtParseOK(last.token, now)
    /\ \E i \in SessionsByHash(sessions, last.token) : sessions[i].valid

\* C6 as claimed: a RefreshSession succeeds only when the time remaining until
\* the token's expiry is at most the refresh window.
C6_RefreshOnlyInsideWindow ==
    (last.op = "refresh" /\ last.ok)
        => TimeUnix(last.token.exp) - now <= refreshWindow * TicksPerSec

\* C7 as claimed: right after RefreshSession(t) returned t', ValidateSession(t)
\* is invalid, ValidateSession(t') is valid and t' expires strictly later than t.
C7_RefreshMonotone ==
    (last.op = "refresh" /\ last.ok)
        => /\ ~ValidateSessionResp(sessions, last.token, now).valid
           /\ ValidateSessionResp(sessions, last.out, now).valid
           /\ last.out.exp > last.token.exp

\* C8 as claimed: a ValidateSession of a token that a successful IssueSession
\* returned, before the token's expiry and with no revocation since it was
\* issued, answers valid=true and the userId the token was issued for.
C8_IssueThenValidate ==
    (last.op = "validate" /\ last.token \in fresh /\ now < TimeUnix(last.token.exp))
        => (last.ok /\ last.userID = last.token.sub)

\* C9: whenever ValidateSession answers valid=true, the AuthSession node found
\* by the token's hash has valid=true and the clock is strictly before its
\* stored expiresAt; a token checked at its expiresAt or later is invalid.
C9_ValidMeansLiveRecord ==
    last.op = "validate"
        => /\ last.ok =>
                /\ SessionsByHash(sessions, last.token) # {}
                /\ FirstSession(last.token).valid
                /\ now < ParseRFC3339(FirstSession(last.token).expiresAt)
           /\ (/\ SessionsByHash(sessions, last.token) # {}
               /\ now >= ParseRFC3339(FirstSession(last.token).expiresAt)) => ~last.ok

\* C9, its case: a validation answered valid=true after the clock has moved.
C9_Witness ==
    /\ last.op = "validate"
    /\ last.ok
    /\ now > 1
    /\ FirstSession(last.token).lastUsed = FormatRFC3339(now)

NeverIssued(token) == token.kind = "garbage"

Revoked(token) == token.kind = "jwt" /\ AlreadyRevoked(sessions, token)

Expired(token) == token.kind = "jwt" /\ now >= TimeUnix(token.exp)

\* C28 as claimed: ValidateSession returns the same response, and
\* RefreshSession the same error, for a token never issued, a revoked token
\* and an expired token.
C28_RefusalsAlike ==
    \A t1, t2 \in PresentedTokens :
        ( /\ NeverIssued(t1) \/ Revoked(t1) \/ Expired(t1)
          /\ NeverIssued(t2) \/ Revoked(t2) \/ Expired(t2) )
        => /\ ValidateSessionResp(sessions, t1, now) = ValidateSessionResp(sessions, t2, now)
           /\ RefreshSessionError(sessions, t1, now) = RefreshSessionError(sessions, t2, now)

\* The SessionRequest of a user id.
RequestOf(userID) == CHOOSE req \in SessionRequests : req.UserID = userID

NonStandard(claims) == {c \in claims : c[1] \notin StandardClaims}

\* C29: extra claims never shadow the standard claims.  The token IssueSession
\* returns has the request's userId as sub and iat + ttl as exp, whatever
\* the AdditionalClaims name, and carries the request's other claims; the
\* token RefreshSession returns has the subject of the old one, exp = iat +
\* ttl, and exactly the non-standard claims of the old one.
C29_NoShadowing ==
    /\ (last.op = "issue" /\ last.ok)
         => /\ last.out.sub = last.userID
            /\ last.out.exp = last.out.iat + ttl
            /\ last.out.iat = Unix(now)
            /\ last.out.jti = <<last.out.iat, last.userID>>
            /\ last.out.extra = NonStandard(RequestOf(last.userID).AdditionalClaims)
    /\ (last.op = "refresh" /\ last.ok)
         => /\ last.out.sub = last.token.sub
            /\ last.out.exp = last.out.iat + ttl
            /\ last.out.iat = Unix(now)
            /\ last.out.extra = NonStandard(last.token.extra)
            /\ last.out.extra = last.token.extra

\* A token issued on a request whose AdditionalClaims name sub, iat, exp and
\* jti has been refreshed, at a later second.
C29_Witness ==
    /\ last.op = "refresh"
    /\ last.ok
    /\ last.token.sub = "u2"
    /\ last.out.extra = {<<"auth_type", "otp">>}
    /\ last.out.iat > last.token.iat
    /\ \E c \in RequestOf("u2").AdditionalClaims : c[1] = "sub" /\ c[2] # "u2"

\* C30 as claimed: no two AuthSession nodes carry the same tokenHash, so any
\* two successful IssueSession or RefreshSession calls return different
\* tokens.
C30_TokenHashUnique ==
    \A i, j \in 1..Len(sessions) :
        sessions[i].tokenHash = sessions[j].tokenHash => i = j

\* The RefreshSession calls for a token that have returned a new token.
RefreshedBy(token) ==
    {p \in Refreshers : /\ refresher[p].pc = "done"
                        /\ refresher[p].ok
                        /\ refresher[p].token = token}

\* C31 as claimed: of the concurrent RefreshSession calls for one token at
\* most one succeeds, and no RefreshSession stores a new session for a token
\* after a RevokeSession of that token has returned revoked=true.
C31_RefreshRevokeLinearizable ==
    /\ [](\A token \in IssuedTokens : Cardinality(RefreshedBy(token)) <= 1)
    /\ [][ \A p \in Refreshers :
             (refresher[p].pc = "issue" /\ refresher'[p].pc = "revoke")
                => refresher[p].token \notin revoked ]_vars

\* C37 as claimed: ValidateSession answers valid=false when the lookup of the
\* session record fails, returns a record that cannot be decoded or returns
\* no record, whatever the token; and when the lookup is served the answer is
\* the one the record gives, whether or not lastUsed could be written.
C37_ValidateFailsClosed ==
    [][ last'.op = "validate" =>
          /\ ~last'.served => ~last'.ok
          /\ SessionsByHash(sessions, last'.token) = {} => ~last'.ok
          /\ last'.served =>
                last'.ok = ValidateSessionResp(sessions, last'.token, now).valid ]_vars

\* A correctly signed, unexpired token whose record is valid was refused
\* because the lookup failed.
C37_Witness ==
    /\ last.op = "validate"
    /\ ~last.served
    /\ ~last.ok
    /\ jwtParseOK(last.token, now)
    /\ isTokenValid(sessions, last.token, now)

(***************************************************************************)
(* OTP engine: the claims.                                                 *)
(***************************************************************************)

\* The ChannelOTP nodes, used or not, that carry the recipient and the code
\* of a request.
OTPMatches(req) ==
    {i \in 1..Len(otps) : /\ otps[i].channelHash = hashString(req.Recipient)
                          /\ otps[i].otpHash = hashString(req.OTPCode)}

\* C1 as claimed: of the VerifyOTP calls that found the same ChannelOTP node,
\* concurrent ones included, at most one returns verified=true.
C1_AtMostOneVerifierSucceeds ==
    \A uid \in 1..Len(otps) :
        Cardinality({p \in Verifiers : /\ verifier[p].pc = "done"
                                       /\ verifier[p].resp.Verified
                                       /\ verifier[p].uid = uid}) <= 1

\* C2: with one VerifyOTP at a time, a node on which a VerifyOTP returned
\* verified=true is verified and used in every later state, and a VerifyOTP
\* with the recipient and code of such a node returns verified=false when
\* no unverified, unused node carries that recipient and code.
C2_UsedIsTerminal ==
    /\ \A uid \in consumed : otps[uid].verified /\ otps[uid].used
    /\ \A req \in VerifyOTPRequests, fault \in OTPFaults :
         (OTPMatches(req) \cap consumed # {} /\ otp_verification(otps, req) = {})
            => ~VerifyOTPResp(otps, req, fault, now).resp.Verified
    /\ ( /\ otpLast.op = "verify"
         /\ OTPMatches(otpLast.req) \cap consumed # {}
         /\ otpLast.candidates = {} )
            => ~otpLast.resp.Verified

\* C2, its case: the code of a consumed node, not yet expired, is presented
\* again and refused.
C2_Witness ==
    /\ otpLast.op = "verify"
    /\ ~otpLast.resp.Verified
    /\ otpLast.candidates = {}
    /\ \E uid \in OTPMatches(otpLast.req) \cap consumed :
          /\ otps[uid].verified /\ otps[uid].used
          /\ now <= ParseRFC3339(otps[uid].expiresAt)

\* C14: every ChannelOTP node with used = true has verified = true: a node is
\* stored with both flags false, and the only mutation of the flags sets
\* both in one write.
C14_UsedImpliesVerified ==
    /\ \A i \in 1..Len(otps) : otps[i].used => otps[i].verified
    /\ (otpLast.op = "send" /\ otpLast.uid # 0)
          => ~otps[otpLast.uid].verified /\ ~otps[otpLast.uid].used

\* A VerifyOTP has just marked the node it found.
C14_Witness ==
    /\ otpLast.op = "verify"
    /\ otpLast.uid # 0
    /\ otps[otpLast.uid].used
    /\ otps[otpLast.uid].verified

\* C15 as claimed: a VerifyOTP with the recipient and code of a node whose
\* expiry has been reached, now >= expiresAt with now = expiresAt included,
\* returns verified = false and leaves the node unverified and unused.
C15_ExpiredIsRefused ==
    ( /\ otpLast.op = "verify"
      /\ otpLast.candidates # {}
      /\ now >= ParseRFC3339(otps[Min(otpLast.candidates)].expiresAt) )
        => /\ ~otpLast.resp.Verified
           /\ ~otps[Min(otpLast.candidates)].verified
           /\ ~otps[Min(otpLast.candidates)].used

\* The unverified, unused nodes that carry the recipient and the code of req.
UnusedMatches(req) ==
    {i \in OTPMatches(req) : ~otps[i].verified /\ ~otps[i].used}

\* C16: a VerifyOTP whose code matches no unused node of the recipient
\* returns verified = false and changes no ChannelOTP node, so that every
\* VerifyOTP that would have succeeded before it, the one with the right
\* code included, succeeds after it.
C16_WrongCodeChangesNothing ==
    [][ (otpLast'.op = "verify" /\ UnusedMatches(otpLast'.req) = {})
          => /\ ~otpLast'.resp.Verified
             /\ otps' = otps
             /\ \A req \in VerifyOTPRequests :
                   VerifyOTPResp(otps, req, "none", now).resp.Verified
                      => VerifyOTPResp(otps', req, "none", now').resp.Verified ]_vars

\* A wrong code has been refused for a recipient who has an unused node, and
\* the right code is accepted now.
C16_Witness ==
    /\ otpLast.op = "verify"
    /\ otpLast.candidates = {}
    /\ ~otpLast.resp.Verified
    /\ \E req \in VerifyOTPRequests :
          /\ req.Recipient = otpLast.req.Recipient
          /\ req.OTPCode # otpLast.req.OTPCode
          /\ UnusedMatches(req) # {}
          /\ VerifyOTPResp(otps, req, "none", now).resp.Verified

\* The channels SendOTP has a dispatcher for.
OTPChannels == {"email", "sms", "whatsapp", "telegram"}

\* The last request was a SendOTP for one of the four channels with a
\* non-empty recipient, and its delivery failed.
DeliveryFailed ==
    /\ otpLast.op \in {"send", "sendError"}
    /\ otpLast.channel \in OTPChannels
    /\ otpLast.req.Recipient # ""
    /\ otpLast.resp.Message = "not sent"

\* Node uid is a ChannelOTP node of the recipient and channel, unverified and
\* unused.
FreshRecord(o, uid, channel, recipient) ==
    /\ uid \in 1..Len(o)
    /\ o[uid].channelHash = hashString(recipient)
    /\ o[uid].channelType = channel
    /\ ~o[uid].verified
    /\ ~o[uid].used

C18_StoreRejectionIsAnError ==
    (otpLast.op \in {"send", "sendError"} /\ otpLast.dispatched /\ otpLast.uid = 0)
        => /\ otpLast.op = "sendError"
           /\ otpLast.OTPID = ""
           /\ otpLast.resp.Message # "sent"

\* C19: a SendOTP with an empty channel, an empty recipient or a channel
\* that is none of email, sms, whatsapp and telegram returns an error and
\* has no effect: no dispatcher is called and no ChannelOTP node is written.
C19_InvalidRequestHasNoEffect ==
    [][ ( /\ otpLast'.op \in {"send", "sendError"}
          /\ \/ otpLast'.channel = ""
             \/ otpLast'.req.Recipient = ""
             \/ otpLast'.channel \notin OTPChannels )
          => /\ otpLast'.op = "sendError"
             /\ ~otpLast'.dispatched
             /\ otpLast'.resp.Message # "sent"
             /\ otpLast'.OTPID = ""
             /\ otps' = otps ]_vars

\* A request for a channel that has no dispatcher has been refused with
\* codes of earlier requests in the store.
C19_Witness ==
    /\ otpLast.op = "sendError"
    /\ otpLast.channel \notin OTPChannels \cup {""}
    /\ otpLast.req.Recipient # ""
    /\ otps # <<>>

\* The number a string of decimal digits denotes.
RECURSIVE Atoi(_)
Atoi(ds) == IF ds = <<>> THEN 0 ELSE 10 * Atoi(SubSeq(ds, 1, Len(ds) - 1)) + ds[Len(ds)]

\* C20: every code generateOTP produces is exactly six decimal digits and
\* lies in [100000, 999999], for every value the random source can return.
C20_SixDigits ==
    generated.code # <<>>
        => /\ Len(generated.code) = 6
           /\ \A i \in 1..Len(generated.code) : generated.code[i] \in 0..9
           /\ Atoi(generated.code) \in 100000..999999
           /\ Atoi(generated.code) = generated.n + 100000

\* The largest value of the random source has been turned into a code.
C20_Witness ==
    /\ generated.n = RandBound - 1
    /\ generated.code = <<9, 9, 9, 9, 9, 9>>

\* C32 as claimed, for the two steps of the OTP engine: a SendOTP that
\* stored a code and a VerifyOTP that consumed one have each written exactly
\* one AuditEntry node.
C32_OneAuditEntryPerStep ==
    /\ (otpLast.op = "send" /\ otpLast.uid # 0) => otpLast.audits = 1
    /\ (otpLast.op = "verify" /\ otpLast.resp.Verified) => otpLast.audits = 1

\* C33 as claimed: a VerifyOTP that returns verified=false, with or without
\* an error, has changed no ChannelOTP record.
C33_RefusedVerifyOTPChangesNothing ==
    [][ (otpLast'.op = "verify" /\ ~otpLast'.resp.Verified) => otps' = otps ]_vars

\* C34 as claimed: a SendOTP leaves every ChannelOTP record it found as it
\* was, and every request that VerifyOTP would have accepted before the
\* SendOTP it accepts after it.
C34_SendOTPKeepsEarlierCodes ==
    [][ otpLast'.op = "send" =>
          /\ Len(otps') >= Len(otps)
          /\ \A i \in 1..Len(otps) : otps'[i] = otps[i]
          /\ \A req \in VerifyOTPRequests :
                VerifyOTPResp(otps, req, "none", now).resp.Verified
                    => VerifyOTPResp(otps', req, "none", now').resp.Verified ]_vars

\* Two codes sent to one recipient are outstanding after the second
\* SendOTP, and VerifyOTP accepts either.
C34_Witness ==
    /\ otpLast.op = "send"
    /\ otpLast.uid = 2
    /\ Len(otps) = 2
    /\ otps[1].channelHash = otps[2].channelHash
    /\ otps[1].otpHash # otps[2].otpHash
    /\ \A i \in 1..2 :
          \E req \in VerifyOTPRequests :
              /\ hashString(req.Recipient) = otps[i].channelHash
              /\ hashString(req.OTPCode) = otps[i].otpHash
              /\ VerifyOTPResp(otps, req, "none", now).resp.Verified
              /\ VerifyOTPResp(otps, req, "none", now).uid = i

(***************************************************************************)
(* WebAuthn service: the claims.                                           *)
(***************************************************************************)

\* The ceremony a verification belongs to.
CeremonyOf(op) == IF op = "verifyRegistration" THEN "registration" ELSE "authentication"

\* C3 as claimed: right after VerifyRegistration or VerifyAuthentication has
\* returned success=true for a challenge, no WebAuthnChallenge node with that
\* challenge, userId and type is in the store, and a further verification
\* that presents it would not pass the challenge test.
C3_ChallengeConsumed ==
    (waLast.op \in {"verifyRegistration", "verifyAuthentication"} /\ waLast.Success)
        => /\ ChallengesFound(challenges, waLast.Challenge, waLast.UserID,
                              CeremonyOf(waLast.op)) = {}
           /\ verifyChallenge(challenges, waLast.Challenge, waLast.UserID,
                              CeremonyOf(waLast.op), TRUE, now) # "ok"

\* C4 as claimed: VerifyAuthentication returns success=true only if the user
\* has an enrolled credential and a WebAuthnCredential node carries the
\* credentialId extracted from the assertion.
C4_AuthenticationNeedsCredential ==
    (waLast.op = "verifyAuthentication" /\ waLast.Success)
        => /\ \E i \in 1..Len(credentials) : credentials[i].credentialId = waLast.CredentialID
           /\ getUserCredentials(credentials, waLast.UserID) # <<>>

\* The origin of the relying party, https:// and its id.
RPOrigin == "https://do-study.hypermode.host"

\* C22 as claimed: a VerifyRegistration whose client data names an origin
\* other than the relying party's returns success=false and stores no
\* WebAuthnCredential node.
C22_ForeignOriginRefused ==
    [][ (waLast'.op = "verifyRegistration" /\ waLast'.Origin # RPOrigin)
          => (~waLast'.Success /\ credentials' = credentials) ]_vars

\* C23: VerifyRegistration and VerifyAuthentication return success=true only
\* if, when they are called, the store holds a WebAuthnChallenge node with
\* the challenge value and the userId of the request and the type of the
\* ceremony, and its expiry has not passed.
C23_SuccessNeedsLiveChallenge ==
    [][ (waLast'.op \in {"verifyRegistration", "verifyAuthentication"} /\ waLast'.Success)
          => \E i \in 1..Len(challenges) :
                /\ challenges[i].challenge = waLast'.Challenge
                /\ challenges[i].userId = waLast'.UserID
                /\ challenges[i].type = CeremonyOf(waLast'.op)
                /\ now <= ParseRFC3339(challenges[i].expiresAt) ]_vars

\* A verification succeeds at the instant its challenge expires, and one is
\* refused as expired an instant later.
C23_Witness ==
    /\ waLast.op \in {"verifyRegistration", "verifyAuthentication"}
    /\ waLast.Success
    /\ now = ChallengeExpiryMinutes * 60 * TicksPerSec
    /\ \E i \in 1..Len(challenges) :
          /\ challenges[i].challenge = waLast.Challenge
          /\ ParseRFC3339(challenges[i].expiresAt) = now

\* The credential nodes that carry a credentialId.
CredentialsWithID(cr, credentialID) ==
    {i \in 1..Len(cr) : cr[i].credentialId = credentialID}

\* The assertion of the last VerifyAuthentication, as a request.
LastAssertion ==
    [UserID |-> waLast.UserID, Challenge |-> waLast.Challenge,
     ClientDataJSON |-> waLast.ClientDataJSON,
     AuthenticatorData |-> waLast.AuthenticatorData]

\* C24 as claimed: a VerifyAuthentication that succeeds carried a signature
\* counter strictly greater than the stored signCount of its credential, or
\* both were zero; the credential's signCount is the assertion's counter
\* afterwards; and the same assertion, presented again, is refused.
C24_SignCounterAdvances ==
    [][ (waLast'.op = "verifyAuthentication" /\ waLast'.Success)
          => LET signCount == SignCounterOf(B64Decode(waLast'.AuthenticatorData))
             IN  /\ \A i \in CredentialsWithID(credentials, waLast'.CredentialID) :
                       /\ \/ signCount > credentials[i].signCount
                          \/ signCount = 0 /\ credentials[i].signCount = 0
                       /\ i \in CredentialsWithID(credentials', waLast'.CredentialID)
                       /\ credentials'[i].signCount = signCount
                 /\ ~VerifyAuthenticationResp(challenges', credentials', LastAssertion',
                                              TRUE, now').resp.Success ]_vars

\* C25 as claimed: no two WebAuthnCredential nodes carry the same
\* credentialId, whatever registrations were verified.
C25_CredentialIdUnique ==
    \A i, j \in 1..Len(credentials) :
        credentials[i].credentialId = credentials[j].credentialId => i = j

\* The User node a request of the WebAuthn service names by uid.
UidIndex(userID) == IF userID = "0x1" THEN 1 ELSE 2

\* C26 as claimed: when VerifyRegistration returns success=true for a user
\* whose status is PENDING, the status of that user is ACTIVE afterwards.
C26_RegistrationActivates ==
    [][ ( /\ waLast'.op = "verifyRegistration"
          /\ waLast'.Success
          /\ UidIndex(waLast'.UserID) <= Len(users)
          /\ users[UidIndex(waLast'.UserID)].status = "PENDING" )
          => users'[UidIndex(waLast'.UserID)].status = "ACTIVE" ]_vars

(***************************************************************************)
(* Router: the claims.                                                     *)
(***************************************************************************)

\* The routing requests that have ended with a user id for the pair req.
RoutedTo(req) ==
    {p \in Routers : /\ router[p].pc = "done"
                     /\ router[p].req = req
                     /\ router[p].resp.Action \in {"signin", "register"}}

\* C10 as claimed: for every (channelHash, channelType) at most one
\* UserChannels node exists and at most one User was created for it, and the
\* routing requests for it, concurrent ones included, end with one userId.
C10_OneUserPerChannel ==
    \A req \in CerberusMFARequests :
        /\ Cardinality(ChannelsFound(userChannels, req.ChannelDID, req.ChannelType)) <= 1
        /\ Cardinality({router[p].newUserUID :
                           p \in {q \in Routers : router[q].req = req /\ router[q].newUserUID # 0}}) <= 1
        /\ \A p, q \in RoutedTo(req) : router[p].resp.UserID = router[q].resp.UserID

(***************************************************************************)
(* Router: the claims on one request at a time.                            *)
(***************************************************************************)

\* The last request was a routing request whose channel query was answered.
Routed == routeLast.op = "route" /\ routeLast.fault # "query"

\* The last request created exactly one User, with status PENDING, and one
\* UserChannels node, verified and primary, both bound to userID.
CreatedUserAndChannel(userID) ==
    /\ Len(users) = routeLast.users + 1
    /\ users[Len(users)].status = "PENDING"
    /\ users[Len(users)].did = userID
    /\ Len(userChannels) = routeLast.userChannels + 1
    /\ userChannels[Len(userChannels)].userId = userID
    /\ userChannels[Len(userChannels)].channelHash = routeLast.req.ChannelDID
    /\ userChannels[Len(userChannels)].channelType = routeLast.req.ChannelType
    /\ userChannels[Len(userChannels)].verified
    /\ userChannels[Len(userChannels)].primary

\* C11 as claimed: a routing request for a (channelDID, channelType) pair
\* that has no UserChannels node creates exactly one User with status
\* PENDING and one UserChannels node with verified = true and primary = true
\* bound to the new userId, and answers userExists = true, action = register
\* and that userId.
C11_MissRegisters ==
    (Routed /\ routeLast.hit = 0)
        => /\ routeLast.resp.UserExists
           /\ routeLast.resp.Action = "register"
           /\ routeLast.resp.UserID # NoUserID
           /\ CreatedUserAndChannel(routeLast.resp.UserID)

\* The channel query of the last request put a verified node first.
FoundVerified ==
    Routed /\ routeLast.hit # 0 /\ userChannels[routeLast.hit].verified

\* The sign-in answer for the node the query put first, with no User and no
\* UserChannels node created.
SignedInNothingCreated ==
    /\ routeLast.resp.UserExists
    /\ routeLast.resp.Action = "signin"
    /\ routeLast.resp.UserID = userChannels[routeLast.hit].userId
    /\ routeLast.resp.AvailableMethods = <<"webauthn", "passwordless">>
    /\ Len(users) = routeLast.users
    /\ Len(userChannels) = routeLast.userChannels

FoundUnverified ==
    Routed /\ routeLast.hit # 0 /\ ~userChannels[routeLast.hit].verified

\* The store without the UserChannels nodes of the pair of req.
WithoutChannelsOf(req) ==
    SelectSeq(userChannels,
              LAMBDA ch : ~(ch.channelHash = req.ChannelDID
                            /\ ch.channelType = req.ChannelType))

\* A request for req is served in the present store as it is served in the
\* store without the nodes of its pair: the same response, the same User
\* nodes and the same UserChannels node added, if any.
ServedLikeAMiss(req, fault) ==
    LET bare == WithoutChannelsOf(req)
        hit == CerberusMFAResp(users, userChannels, req, fault, TRUE, now)
        miss == CerberusMFAResp(users, bare, req, fault, TRUE, now)
    IN  /\ hit.resp = miss.resp
        /\ hit.users = miss.users
        /\ SubSeq(hit.userChannels, 1, Len(userChannels)) = userChannels
        /\ SubSeq(miss.userChannels, 1, Len(bare)) = bare
        /\ SubSeq(hit.userChannels, Len(userChannels) + 1, Len(hit.userChannels))
             = SubSeq(miss.userChannels, Len(bare) + 1, Len(miss.userChannels))

\* C13: the router never answers action = signin for, nor a userId taken
\* from, a UserChannels node whose verified flag is false: a sign-in answer
\* carries the userId of a verified node, and a request whose channel query
\* puts an unverified node first is served exactly as if the pair had no
\* node at all.
C13_UnverifiedIsAMiss ==
    /\ (Routed /\ routeLast.resp.Action = "signin") => FoundVerified
    /\ FoundUnverified
         => /\ routeLast.resp.Action # "signin"
            /\ routeLast.resp.UserID # userChannels[routeLast.hit].userId
    /\ \A req \in CerberusMFARequests, fault \in RouterFaults :
         LET found == ChannelsFound(userChannels, req.ChannelDID, req.ChannelType)
         IN  (found # {} /\ ~userChannels[Min(found)].verified)
                 => ServedLikeAMiss(req, fault)

\* A request for a pair whose only node is unverified has registered a new
\* user.
C13_Witness ==
    /\ FoundUnverified
    /\ routeLast.resp.Action = "register"
    /\ Len(users) = routeLast.users + 1

\* C35 as claimed, for the request that follows directly: after a routing
\* request answered action=register with user id u, the next routing request
\* for the same channelDID and channelType, served with no store failure,
\* answers action=signin with user id u and creates no User.
C35_RegisterThenSignin ==
    [][ ( /\ routeLast.op = "route"
          /\ routeLast.resp.Action = "register"
          /\ routeLast'.op = "route"
          /\ routeLast'.req = routeLast.req
          /\ routeLast'.fault = "none" )
        => ( /\ routeLast'.resp.Action = "signin"
             /\ routeLast'.resp.UserID = routeLast.resp.UserID
             /\ Len(users') = Len(users) ) ]_vars

\* C36 as claimed: a routing request for an unknown channel whose channelDID
\* has fewer than 8 characters ends with an error or an error response, and
\* is not aborted by the slice of the last 8 characters.
C36_ShortChannelDIDIsAnError ==
    ( /\ routeLast.op = "route"
      /\ routeLast.hit = 0
      /\ Len(routeLast.req.ChannelDID) < 8 )
    => routeLast.resp.Action \in {"error", "failed"}

\* C38 as claimed, for a request served with no store failure: RegisterUser
\* called for a channel with no user answers userExists=false with
\* action=register, and it answers action=signin only for a channel that had
\* a user before the call.
C38_RegisterUserOfNewChannel ==
    ( /\ routeLast.op = "RegisterUser"
      /\ routeLast.fault = "none"
      /\ ~LastEightPanics(routeLast.req.ChannelDID) )
    => /\ routeLast.hit = 0 =>
            (~routeLast.resp.UserExists /\ routeLast.resp.Action = "register")
       /\ routeLast.resp.Action = "signin" => routeLast.hit # 0

\* C39 as claimed, for a request served with no store failure: SigninUser
\* called for a channel with no user answers userExists=false with
\* action=register and creates no User and no UserChannels node, and it
\* answers action=signin only for a user that existed before the call.
C39_SigninUserOfNewChannel ==
    ( /\ routeLast.op = "SigninUser"
      /\ routeLast.fault = "none"
      /\ ~LastEightPanics(routeLast.req.ChannelDID) )
    => /\ routeLast.hit = 0 =>
            /\ ~routeLast.resp.UserExists
            /\ routeLast.resp.Action = "register"
            /\ Len(users) = routeLast.users
            /\ Len(userChannels) = routeLast.userChannels
       /\ routeLast.resp.Action = "signin" => routeLast.hit # 0

(***************************************************************************)
(* The front door: the claims.                                             *)
(***************************************************************************)

\* What the router answers, without creating anything, for the channel of a
\* verified code.
RouterView(channelDID, channelType) ==
    checkUserByChannel(userChannels, HexDigest(channelDID), channelType, TRUE)

\* C21 as claimed: the action and userId a successful VerifyOTP returns are
\* the router's for channelDID = H(channelType:recipient): signin with the
\* userId of the verified UserChannels node when the router has one, and
\* register only when it has none.
C21_VerifyOTPRoutesAsRouter ==
    [][ (otpLast'.op = "verify" /\ otpLast'.resp.Verified /\ otps' # otps)
          => LET view == RouterView(otpLast'.resp.ChannelDID,
                                    otps[otpLast'.uid].channelType)
             IN  /\ otpLast'.resp.Action = IF view.exists THEN "signin" ELSE "register"
                 /\ otpLast'.resp.UserID = view.userID ]_vars

(***************************************************************************)
(* The email queue: the claims.                                            *)
(***************************************************************************)

\* The number of places of a sequence that hold the item.
Occurrences(seq, id) == Cardinality({i \in 1..Len(seq) : seq[i] = id})

\* The workers that hold the item.
HeldBy(id) == {w \in EmailWorkers : emailQueue.holding[w] = id}

\* An item that has not been sent and has failed fewer than MaxAttempts
\* times.
Outstanding(id) ==
    /\ emailQueue.items[id].OnSuccess = 0
    /\ emailQueue.items[id].Attempts < MaxAttempts

\* The items QueueEmail has accepted.
EmailIDs == 1..Len(emailQueue.items)

====
